---- MODULE Spec2Model ----
(***************************************************************************)
(* NetPulse dispatch core.                                                 *)
(*                                                                         *)
(*   coordinator  src/netpulse/backend/main.py   (Redis task registry,     *)
(*                fan-out of one check into one sub-task per check type)   *)
(*   hub          src/agent_server/server_agent.py (in-memory agents_db,   *)
(*                tasks_queue, task_results; agents pull work from it)     *)
(*                                                                         *)
(* Both are FastAPI applications whose handlers are `async def` bodies     *)
(* without any await: a handler runs to completion on its process's event   *)
(* loop, so one handler is one atomic step of its process.  The            *)
(* coordinator's create_task calls the hub synchronously once per          *)
(* sub-task (requests.post), so the hub serves its agents between two      *)
(* relays of one fan-out: create_task is modelled one loop iteration at a   *)
(* time, while no other coordinator handler runs in between (its event     *)
(* loop is blocked in the call).                                           *)
(*                                                                         *)
(* A third program, the main server of                                     *)
(* src/netpulse_main_server/backend/main.py, keeps its agents and checks   *)
(* in Redis with an in-memory index of the active agents, and runs the     *)
(* liveness sweep cleanup_dead_agents as a background task of its event    *)
(* loop; the body of one sweep has no await and is one atomic step.        *)
(*                                                                         *)
(* The hub starts one worker thread per agent (start_agent_worker); the    *)
(* thread polls and submits through the hub's own HTTP endpoints, so each  *)
(* of its calls is one step of the handler it reaches.  The coordinator's  *)
(* admin endpoints keep an agent registry in Redis (agent:<id>) and call   *)
(* the hub to create and stop agents.                                      *)
(*                                                                         *)
(* The regional hub of src/netpulse_agent_server/regional_hub.py starts    *)
(* agent_worker.py processes and keeps them in a sqlite table; a worker    *)
(* registers with the main server, sends it heartbeats and pops the Redis  *)
(* list pending_tasks directly.  Each HTTP call and each Redis command of  *)
(* a worker is one step.                                                   *)
(*                                                                         *)
(* A string id is modelled as the sequence of its '-' separated segments,  *)
(* so that f"{task_id}-{check_type}" is task_id \o <<check_type>> and      *)
(* str.startswith is a prefix test on segments.                            *)
(***************************************************************************)
EXTENDS Integers, Sequences, FiniteSets, TLC

VARIABLES
    redis_tasks,    \* coordinator: key task:<id> -> record
    redis_queue,    \* coordinator: key queue:<country> -> list of ids
    ct,             \* coordinator: the create_task handler in flight
    nChecks,        \* coordinator: number of parent ids generated so far
    nRelayFail,     \* number of relays that failed so far
    redis_agents,   \* coordinator: key agent:<id> -> record
    agents_db,      \* hub: agent_id -> agent_data
    tasks_queue,    \* hub: list of task_data
    task_results,   \* hub: task_id -> result
    nSubmits,       \* number of accepted submit-result calls so far
    handed,         \* history: task id -> agents a poll returned it to
    workers,        \* hub: agent_id -> the state of its worker thread
    now,            \* datetime.now(), in seconds
    agent_store,    \* main server: key agent:<id> -> record
    active_agents,  \* main server: the in-memory dict active_agents
    active_set,     \* main server: the Redis set active_agents
    check_store,    \* main server: key task:<id> -> record
    pending_tasks,  \* main server: the Redis list pending_tasks
    monitor,        \* main server: the background task cleanup_dead_agents
    popped,         \* history: the tasks taken off pending_tasks, and by whom
    agent_workers,  \* agent worker processes: name -> state of AgentWorker
    agents_table,   \* regional hub: the sqlite table agents, id -> row
    processes,      \* regional hub: the processes it spawned, in pid order
    last            \* history: the last call and its answer

vars == <<redis_tasks, redis_queue, ct, nChecks, nRelayFail, redis_agents,
          agents_db, tasks_queue, task_results, nSubmits, handed, workers,
          now, agent_store, active_agents, active_set, check_store,
          pending_tasks, monitor, popped, agent_workers, agents_table,
          processes, last>>

coordVars == <<redis_tasks, redis_queue, ct, nChecks, nRelayFail,
               redis_agents>>
hubVars == <<agents_db, tasks_queue, task_results, nSubmits, handed,
             workers>>
mainVars == <<agent_store, active_agents, active_set, check_store,
              pending_tasks, monitor, popped>>
regionVars == <<agent_workers, agents_table, processes>>

(***************************************************************************)
(* Bounds of the model.                                                    *)
(***************************************************************************)
MaxChecks == 1
MaxAgents == 2
MaxSubmits == 2
MaxRelayFailures == 1
MaxSubTasks == 3
MaxQueue == 2
MaxHubTicks == 1
MaxMainAgents == 2
MaxCreatedChecks == 1
MaxQueuedChecks == 2
MaxProcesses == 3
MaxCount == 2
MaxResults == 1
MaxTicks == 3
TickSeconds == 150

(***************************************************************************)
(* Program constants and input sets.                                       *)
(***************************************************************************)
None == "None"

all_check_types ==
    <<"http", "https", "ping", "tcp", "traceroute",
      "dns_a", "dns_aaaa", "dns_mx", "dns_ns", "dns_txt">>

AGENT_SERVERS == [ru |-> [url |-> "http://localhost:8001",
                          token |-> "ru-server-secret-token-12345"]]

CONFIG == [server_id |-> "agent-server-ru-01",
           token |-> "ru-server-secret-token-12345",
           country |-> "ru"]

max_tasks == 5

default_capabilities == {"http", "ping", "tcp", "dns"}

\* uuid.uuid4() values, in the order they are drawn: fresh, pairwise distinct.
Uuids == <<  <<"a1", "b1">>, <<"a2", "b2">>, <<"a3", "b3">>  >>

\* f"agent-{country}-{token_hex(4)}" values and token_hex(16) values, in the
\* order they are drawn: fresh, pairwise distinct.
AgentIds == <<"agent-ru-01", "agent-ru-02", "agent-ru-03", "agent-ru-04">>
AgentTokens == <<"tok01", "tok02", "tok03", "tok04">>

Countries == {"auto", "ru", "us"}
\* the `capabilities` query parameter of create-agent: absent (Python None) or a list
CapabilityChoices ==
    { [given |-> TRUE, list |-> {"http", "ping"}],
      [given |-> TRUE,
       list |-> {"http", "https", "ping", "tcp", "traceroute", "dns_a"}] }
ServerTokens == {CONFIG.token, "wrong-server-token"}
UnknownAgent == "agent-ru-ff"
UnknownTask == <<"ff", "ff", "http">>
Results == {"r1"}

Statuses == {"pending", "assigned", "completed", "failed"}

Range(s) == {s[i] : i \in DOMAIN s}
Min(S) == CHOOSE x \in S : \A y \in S : x <= y
Max(a, b) == IF a >= b THEN a ELSE b

(***************************************************************************)
(* Coordinator: Redis helpers.                                             *)
(***************************************************************************)
\* redis_client.set(f"task:{id}", json.dumps(task_data))
redis_set(store, key, value) ==
    [k \in DOMAIN store \cup {key} |-> IF k = key THEN value ELSE store[k]]

\* redis_client.lpush(f"queue:{country}", id)
redis_lpush(lists, key, value) ==
    [lists EXCEPT ![key] = <<value>> \o @]

\* stored_task_id.startswith(f"{task_id}-")
startswith_dash(stored_task_id, task_id) ==
    /\ Len(stored_task_id) > Len(task_id)
    /\ SubSeq(stored_task_id, 1, Len(task_id)) = task_id

ct_idle == [pc |-> "idle", task_id |-> <<>>, country |-> "", i |-> 0,
            sub_tasks |-> <<>>]

(***************************************************************************)
(* Coordinator: POST /tasks.                                               *)
(***************************************************************************)
\* if country == "auto": country = secrets.choice(list(AGENT_SERVERS.keys()))
resolve_country(country) ==
    IF country = "auto" THEN DOMAIN AGENT_SERVERS ELSE {country}

\* create_task without the test of the country
country_configured_any(country) == TRUE

\* if country not in AGENT_SERVERS: raise HTTPException(400)
country_configured(country) == country \in DOMAIN AGENT_SERVERS

\* a sub-task id that leaves the check type out
sub_task_id_untyped(task_id, check_type) == task_id \o <<"check">>

sub_task_id(task_id, check_type) == task_id \o <<check_type>>

new_task_data(task_id, check_type, country) ==
    [id |-> sub_task_id(task_id, check_type),
     parent_task_id |-> task_id,
     target |-> "example.com",
     check_type |-> check_type,
     country |-> country,
     status |-> "pending",
     assigned_agent |-> None]

\* hub: TaskManager.add_task
add_task(task_data) == Append(tasks_queue, task_data)

\* hub: POST /assign-task, the body after the token check
assign_task(task_data) ==
    add_task([task_data EXCEPT !.status = "pending",
                               !.country = CONFIG.country])

create_task_begin(country) ==
    /\ ct.pc = "idle"
    /\ \E c \in resolve_country(country) :
         IF ~country_configured(c)
         THEN /\ last' = [op |-> "create_task", country |-> country,
                          code |-> 400]
              /\ UNCHANGED <<coordVars, hubVars>>
         ELSE /\ nChecks < MaxChecks
              /\ nChecks' = nChecks + 1
              /\ ct' = [pc |-> "loop", task_id |-> Uuids[nChecks + 1],
                        country |-> c, i |-> 1, sub_tasks |-> <<>>]
              /\ last' = [op |-> "create_task_begin", country |-> country,
                          code |-> 0]
              /\ UNCHANGED <<redis_tasks, redis_queue, nRelayFail,
                             redis_agents, hubVars>>
    /\ UNCHANGED <<now, mainVars, regionVars>>

\* a fan-out that stops at the first relay that fails
after_relay_failure_abort(i) == Len(all_check_types) + 1

\* the index of the loop after a relay that failed: the except clause and the
\* non-200 branch only print, the loop goes on with the next check type
after_relay_failure(i) == i + 1

\* one iteration of `for check_type in all_check_types`
create_task_loop(relay_ok) ==
    /\ ct.pc = "loop"
    /\ ct.i <= Len(all_check_types)
    /\ LET check_type == all_check_types[ct.i]
           task_data == new_task_data(ct.task_id, check_type, ct.country)
       IN  /\ redis_tasks' = redis_set(redis_tasks, task_data.id, task_data)
           /\ redis_queue' = redis_lpush(redis_queue, ct.country, task_data.id)
           /\ IF relay_ok /\ AGENT_SERVERS[ct.country].token = CONFIG.token
              THEN /\ tasks_queue' = assign_task(task_data)
                   /\ ct' = [ct EXCEPT !.i = @ + 1,
                                       !.sub_tasks = Append(@, task_data.id)]
                   /\ UNCHANGED nRelayFail
              ELSE /\ nRelayFail' = nRelayFail + 1
                   /\ ct' = [ct EXCEPT !.i = after_relay_failure(@),
                                       !.sub_tasks = Append(@, task_data.id)]
                   /\ UNCHANGED tasks_queue
           /\ last' = [op |-> "create_task_loop", country |-> ct.country,
                       code |-> 0]
    /\ UNCHANGED <<nChecks, redis_agents, agents_db, task_results, nSubmits,
                   handed, workers, now, mainVars, regionVars>>

create_task_return ==
    /\ ct.pc = "loop"
    /\ ct.i > Len(all_check_types)
    /\ last' = [op |-> "create_task", country |-> ct.country, code |-> 200,
                status |-> "success", task_id |-> ct.task_id,
                check_types |-> all_check_types, sub_tasks |-> ct.sub_tasks]
    /\ ct' = ct_idle
    /\ UNCHANGED <<redis_tasks, redis_queue, nChecks, nRelayFail,
                   redis_agents, hubVars, now, mainVars, regionVars>>


(***************************************************************************)
(* Coordinator: GET /tasks/{task_id}.                                      *)
(***************************************************************************)
\* the keys of scan_iter("task:*") that start with f"{task_id}-"
find_sub_tasks(task_id) ==
    {k \in DOMAIN redis_tasks : startswith_dash(k, task_id)}

\* status_counts[status] = status_counts.get(status, 0) + 1, over sub_tasks
count_statuses(sub_tasks) ==
    LET present == {redis_tasks[k].status : k \in sub_tasks}
    IN  [st \in present |->
            Cardinality({k \in sub_tasks : redis_tasks[k].status = st})]

\* dict.get(key, 0)
dict_get(d, key) == IF key \in DOMAIN d THEN d[key] ELSE 0

\* the completed flag set as soon as one sub-task is completed
all_completed_any(status_counts, n) == dict_get(status_counts, "completed") > 0

\* status_counts.get("completed", 0) == len(sub_tasks)
all_completed(status_counts, n) == dict_get(status_counts, "completed") = n

get_task_status(task_id) ==
    /\ ct.pc = "idle"
    /\ LET sub_tasks == find_sub_tasks(task_id) IN
       IF sub_tasks = {}
       THEN IF task_id \in DOMAIN redis_tasks
            THEN last' = [op |-> "get_task_status", code |-> 200,
                          task_id |-> task_id,
                          status_summary |->
                              [st \in {redis_tasks[task_id].status} |-> 1],
                          completed |->
                              (redis_tasks[task_id].status = "completed"),
                          checks |-> {task_id}]
            ELSE last' = [op |-> "get_task_status", code |-> 404,
                          task_id |-> task_id]
       ELSE LET status_counts == count_statuses(sub_tasks) IN
            last' = [op |-> "get_task_status", code |-> 200,
                     task_id |-> task_id,
                     status_summary |-> status_counts,
                     completed |->
                         all_completed(status_counts, Cardinality(sub_tasks)),
                     checks |-> sub_tasks]
    /\ UNCHANGED <<coordVars, hubVars, now, mainVars, regionVars>>

\* the ids a status is asked for: the parent ids handed out, the first
\* segment of one, a sub-task id and an id never created
TaskIdQueries ==
    {Uuids[n] : n \in 1..nChecks}
        \cup {<<Uuids[1][1]>>, sub_task_id(Uuids[1], "http"), UnknownTask}

(***************************************************************************)
(* Hub: AgentManager and TaskManager.                                      *)
(***************************************************************************)
\* AgentManager.create_agent: the agent_data it stores
new_agent_data(agent_id, agent_token, capabilities) ==
    [id |-> agent_id,
     token |-> agent_token,
     capabilities |-> IF capabilities.given THEN capabilities.list
                      ELSE default_capabilities,
     status |-> "online",
     current_tasks |-> 0,
     max_tasks |-> max_tasks,
     last_heartbeat |-> now]

\* AgentManager.verify_agent
verify_agent(agent_id, token) ==
    /\ agent_id \in DOMAIN agents_db
    /\ agents_db[agent_id].token = token

\* a token check that accepts every token
verify_server_token_any(token) == TRUE

\* AgentManager.verify_server_token
verify_server_token(token) == token = CONFIG.token

\* get_pending_task_for_agent that also offers the tasks already assigned
get_pending_task_for_agent_retry(agent_capabilities) ==
    LET hits == {i \in 1..Len(tasks_queue) :
                    /\ tasks_queue[i].status \in {"pending", "assigned"}
                    /\ tasks_queue[i].check_type \in agent_capabilities}
    IN  IF hits = {} THEN 0 ELSE Min(hits)

\* get_pending_task_for_agent that looks at the first pending task only
get_pending_task_for_agent_head(agent_capabilities) ==
    LET pending == {i \in 1..Len(tasks_queue) :
                       tasks_queue[i].status = "pending"}
    IN  IF pending = {} THEN 0
        ELSE IF tasks_queue[Min(pending)].check_type \in agent_capabilities
        THEN Min(pending) ELSE 0

\* get_pending_task_for_agent that lets a capability stand for the check
\* types whose name it begins ("dns" for dns_a, "http" for https)
get_pending_task_for_agent_family(agent_capabilities) ==
    LET family(check_type) ==
            IF check_type \in {"dns_a", "dns_aaaa", "dns_mx", "dns_ns",
                               "dns_txt"} THEN "dns"
            ELSE IF check_type = "https" THEN "http"
            ELSE check_type
        hits == {i \in 1..Len(tasks_queue) :
                    /\ tasks_queue[i].status = "pending"
                    /\ \/ tasks_queue[i].check_type \in agent_capabilities
                       \/ family(tasks_queue[i].check_type)
                              \in agent_capabilities}
    IN  IF hits = {} THEN 0 ELSE Min(hits)

\* TaskManager.get_pending_task_for_agent: the index in tasks_queue of the
\* task it returns, 0 for None
get_pending_task_for_agent(agent_capabilities) ==
    LET hits == {i \in 1..Len(tasks_queue) :
                    /\ tasks_queue[i].status = "pending"
                    /\ tasks_queue[i].check_type \in agent_capabilities}
    IN  IF hits = {} THEN 0 ELSE Min(hits)

\* update_task_status that records the agent and leaves the status as it was
update_task_status_keeps_status(task_id, status, agent_id) ==
    LET hits == {i \in 1..Len(tasks_queue) : tasks_queue[i].id = task_id}
    IN  IF hits = {} THEN tasks_queue
        ELSE [tasks_queue EXCEPT
                ![Min(hits)].assigned_agent =
                    IF agent_id # None THEN agent_id ELSE @]

\* TaskManager.update_task_status: tasks_queue after the call
update_task_status(task_id, status, agent_id) ==
    LET hits == {i \in 1..Len(tasks_queue) : tasks_queue[i].id = task_id}
    IN  IF hits = {} THEN tasks_queue
        ELSE [tasks_queue EXCEPT
                ![Min(hits)].status = status,
                ![Min(hits)].assigned_agent =
                    IF agent_id # None THEN agent_id ELSE @]

\* a capacity test that never refuses
at_capacity_never(agent) == FALSE

\* the capacity test with > for >=
at_capacity_strict(agent) == agent.current_tasks > agent.max_tasks

\* agent["current_tasks"] >= agent["max_tasks"]
at_capacity(agent) == agent.current_tasks >= agent.max_tasks

\* max(0, agent["current_tasks"] - 1)
decremented_load(current_tasks) == Max(0, current_tasks - 1)

\* an assignment that leaves last_heartbeat as it was
taking_agent_stale(agent) == [agent EXCEPT !.current_tasks = @ + 1]

\* agent["current_tasks"] += 1; agent["last_heartbeat"] = now
taking_agent(agent) ==
    [agent EXCEPT !.current_tasks = @ + 1, !.last_heartbeat = now]

\* AgentManager.start_agent_worker: a thread that is about to test its loop
\* condition and holds no task
start_agent_worker(agent_data) ==
    redis_set(workers, agent_data.id, [pc |-> "check", task |-> None])

\* the history of what the polls returned
record_handed(task_id, agent_id) ==
    IF task_id \in DOMAIN handed
    THEN [handed EXCEPT ![task_id] = Append(@, agent_id)]
    ELSE [k \in DOMAIN handed \cup {task_id} |->
            IF k = task_id THEN <<agent_id>> ELSE handed[k]]

(***************************************************************************)
(* Hub: endpoints called by the coordinator.                               *)
(***************************************************************************)
\* POST /create-agent
create_agent(server_token, capabilities) ==
    /\ IF ~verify_server_token(server_token)
       THEN /\ last' = [op |-> "create_agent", code |-> 401,
                        server_token |-> server_token]
            /\ UNCHANGED <<agents_db, workers>>
       ELSE /\ Cardinality(DOMAIN agents_db) < MaxAgents
            /\ LET n == Cardinality(DOMAIN agents_db) + 1
                   agent_data == new_agent_data(AgentIds[n], AgentTokens[n],
                                                capabilities)
               IN  /\ agents_db' = redis_set(agents_db, agent_data.id,
                                             agent_data)
                   /\ workers' = start_agent_worker(agent_data)
                   /\ last' = [op |-> "create_agent", code |-> 200,
                               server_token |-> server_token,
                               agent_id |-> agent_data.id]
    /\ UNCHANGED <<coordVars, tasks_queue, task_results, nSubmits, handed,
                   now, mainVars, regionVars>>

\* POST /stop-agent
stop_agent(agent_id, server_token) ==
    /\ IF ~verify_server_token(server_token)
       THEN /\ last' = [op |-> "stop_agent", code |-> 401,
                        server_token |-> server_token, agent_id |-> agent_id]
            /\ UNCHANGED agents_db
       ELSE IF agent_id \in DOMAIN agents_db
       THEN /\ agents_db' = [agents_db EXCEPT ![agent_id].status = "stopped"]
            /\ last' = [op |-> "stop_agent", code |-> 200,
                        server_token |-> server_token]
       ELSE /\ last' = [op |-> "stop_agent", code |-> 404,
                        server_token |-> server_token, agent_id |-> agent_id]
            /\ UNCHANGED agents_db
    /\ UNCHANGED <<coordVars, tasks_queue, task_results, nSubmits, handed,
                   workers, now, mainVars, regionVars>>

\* POST /assign-task
post_assign_task(task_data, server_token) ==
    /\ IF ~verify_server_token(server_token)
       THEN /\ last' = [op |-> "assign_task", code |-> 401,
                        server_token |-> server_token]
            /\ UNCHANGED tasks_queue
       ELSE /\ tasks_queue' = assign_task(task_data)
            /\ last' = [op |-> "assign_task", code |-> 200,
                        server_token |-> server_token,
                        task_id |-> task_data.id,
                        queue_size |-> Len(tasks_queue')]
    /\ UNCHANGED <<coordVars, agents_db, task_results, nSubmits, handed,
                   workers, now, mainVars, regionVars>>

\* GET /agents
list_agents(server_token) ==
    /\ IF ~verify_server_token(server_token)
       THEN last' = [op |-> "list_agents", code |-> 401,
                     server_token |-> server_token]
       ELSE LET online_agents == {a \in DOMAIN agents_db :
                                     agents_db[a].status = "online"}
            IN  last' = [op |-> "list_agents", code |-> 200,
                         server_token |-> server_token,
                         agents |-> DOMAIN agents_db,
                         total |-> Cardinality(DOMAIN agents_db),
                         online |-> Cardinality(online_agents),
                         offline |-> Cardinality(DOMAIN agents_db)
                                        - Cardinality(online_agents),
                         pending_tasks |->
                             Cardinality({i \in 1..Len(tasks_queue) :
                                 tasks_queue[i].status = "pending"}),
                         active_tasks |->
                             Cardinality({i \in 1..Len(tasks_queue) :
                                 tasks_queue[i].status = "assigned"})]
    /\ UNCHANGED <<coordVars, hubVars, now, mainVars, regionVars>>

\* GET /task-result/{task_id}
get_task_result(task_id, server_token) ==
    /\ IF ~verify_server_token(server_token)
       THEN last' = [op |-> "get_task_result", code |-> 401,
                     server_token |-> server_token]
       ELSE IF task_id \in DOMAIN task_results
       THEN last' = [op |-> "get_task_result", code |-> 200,
                     server_token |-> server_token, status |-> "success",
                     result |-> task_results[task_id]]
       ELSE last' = [op |-> "get_task_result", code |-> 200,
                     server_token |-> server_token, status |-> "not_found"]
    /\ UNCHANGED <<coordVars, hubVars, now, mainVars, regionVars>>

(***************************************************************************)
(* Hub: endpoints called by the agents.                                    *)
(***************************************************************************)
\* GET /agent/pending-task
get_pending_task(agent_id, agent_token) ==
    /\ IF ~verify_agent(agent_id, agent_token)
       THEN /\ last' = [op |-> "get_pending_task", code |-> 401,
                        agent_id |-> agent_id, status |-> "unauthorized"]
            /\ UNCHANGED <<agents_db, tasks_queue, handed>>
       ELSE LET agent == agents_db[agent_id] IN
            IF agent.status # "online"
            THEN /\ last' = [op |-> "get_pending_task", code |-> 200,
                             agent_id |-> agent_id, status |-> "offline"]
                 /\ UNCHANGED <<agents_db, tasks_queue, handed>>
            ELSE IF at_capacity(agent)
            THEN /\ last' = [op |-> "get_pending_task", code |-> 200,
                             agent_id |-> agent_id, status |-> "busy"]
                 /\ UNCHANGED <<agents_db, tasks_queue, handed>>
            ELSE LET i == get_pending_task_for_agent(agent.capabilities) IN
                 IF i # 0
                 THEN /\ tasks_queue' = update_task_status(tasks_queue[i].id,
                                                           "assigned", agent_id)
                      /\ agents_db' = [agents_db EXCEPT
                                         ![agent_id] = taking_agent(@)]
                      /\ handed' = record_handed(tasks_queue[i].id, agent_id)
                      /\ last' = [op |-> "get_pending_task", code |-> 200,
                                  agent_id |-> agent_id, status |-> "task",
                                  task |-> tasks_queue'[i]]
                 ELSE /\ last' = [op |-> "get_pending_task", code |-> 200,
                                  agent_id |-> agent_id, status |-> "no_tasks"]
                      /\ UNCHANGED <<agents_db, tasks_queue, handed>>
    /\ UNCHANGED <<coordVars, task_results, nSubmits, now, mainVars, regionVars>>

\* POST /agent/submit-result
submit_result(task_id, agent_id, agent_token, result) ==
    /\ IF ~verify_agent(agent_id, agent_token)
       THEN /\ last' = [op |-> "submit_result", code |-> 401,
                        agent_id |-> agent_id, task_id |-> task_id]
            /\ UNCHANGED <<agents_db, tasks_queue, task_results, nSubmits>>
       ELSE /\ nSubmits < MaxSubmits
            /\ nSubmits' = nSubmits + 1
            /\ tasks_queue' = update_task_status(task_id, "completed", None)
            /\ agents_db' = [agents_db EXCEPT ![agent_id].current_tasks =
                                decremented_load(@)]
            /\ task_results' = redis_set(task_results, task_id, result)
            /\ last' = [op |-> "submit_result", code |-> 200,
                        agent_id |-> agent_id, task_id |-> task_id,
                        repeat |-> task_id \in DOMAIN task_results,
                        load_before |-> agents_db[agent_id].current_tasks]
    /\ UNCHANGED <<coordVars, handed, now, mainVars, regionVars>>

\* POST /agent/heartbeat
agent_heartbeat(agent_id, agent_token) ==
    /\ IF ~verify_agent(agent_id, agent_token)
       THEN /\ last' = [op |-> "agent_heartbeat", code |-> 401,
                        agent_id |-> agent_id]
            /\ UNCHANGED agents_db
       ELSE /\ agents_db' = [agents_db EXCEPT
                               ![agent_id].status = "online",
                               ![agent_id].last_heartbeat = now]
            /\ last' = [op |-> "agent_heartbeat", code |-> 200]
    /\ UNCHANGED <<coordVars, tasks_queue, task_results, nSubmits, handed,
                   workers, now, mainVars, regionVars>>

\* the agent ids and tokens a caller may present
AgentIdInputs == DOMAIN agents_db \cup {UnknownAgent}
AgentTokenInputs == {agents_db[a].token : a \in DOMAIN agents_db} \cup {"forged"}
\* the task ids a result is submitted for: the sub-tasks of these check types
\* (the first two an agent with any capability list above is given) and an id
\* the hub never saw
SubmitCheckTypes == {"http"}
TaskIdInputs ==
    {k \in DOMAIN redis_tasks : redis_tasks[k].check_type \in SubmitCheckTypes}
        \cup {UnknownTask}

(***************************************************************************)
(* Hub: the worker thread of an agent (start_agent_worker).  It calls the  *)
(* hub's own endpoints over HTTP, so a poll or a submit of the worker is   *)
(* the handler's step together with the thread's move; the thread's other  *)
(* moves are the test of the loop condition, the write of last_heartbeat   *)
(* and the except clause.  The sleeps only delay the next move.            *)
(***************************************************************************)
\* a loop condition that never ends the thread
worker_continues_always(agent_id) == TRUE

\* while agents_db.get(agent_id, {}).get("status") == "online"
worker_continues(agent_id) ==
    /\ agent_id \in DOMAIN agents_db
    /\ agents_db[agent_id].status = "online"

\* an except clause that leaves the loop
after_worker_exception_exit == "done"

\* where the thread goes on after `except Exception`: sleep(30), then the
\* loop condition
after_worker_exception == "check"

\* AgentManager.execute_task returns a result unless one of the keys it
\* reads is missing (KeyError)
execute_task_returns(task_data) ==
    {"check_type", "target"} \subseteq DOMAIN task_data

\* the thread after the answer to its poll
after_poll(answer) ==
    IF answer.code # 200
    THEN [pc |-> "beat", task |-> None]
    ELSE IF answer.status \in {"no_tasks", "busy"}
    THEN [pc |-> "check", task |-> None]
    ELSE IF answer.status = "offline"
    THEN \* task_data['id'] raises KeyError
         [pc |-> after_worker_exception, task |-> None]
    ELSE IF execute_task_returns(answer.task)
    THEN [pc |-> "submit", task |-> answer.task]
    ELSE [pc |-> after_worker_exception, task |-> None]

worker_check(agent_id) ==
    /\ workers[agent_id].pc = "check"
    /\ workers' = [workers EXCEPT ![agent_id].pc =
                      IF worker_continues(agent_id) THEN "poll" ELSE "done"]
    /\ UNCHANGED <<coordVars, agents_db, tasks_queue, task_results, nSubmits,
                   handed, now, mainVars, regionVars, last>>

worker_poll(agent_id) ==
    /\ workers[agent_id].pc = "poll"
    /\ get_pending_task(agent_id, agents_db[agent_id].token)
    /\ workers' = [workers EXCEPT ![agent_id] = after_poll(last')]

\* requests.get or requests.post raises: the hub did not serve the call
worker_call_fails(agent_id) ==
    /\ workers[agent_id].pc \in {"poll", "submit"}
    /\ workers' = [workers EXCEPT
                      ![agent_id] = [pc |-> after_worker_exception,
                                     task |-> None]]
    /\ last' = [op |-> "worker_exception", code |-> 0,
                agent_id |-> agent_id, at |-> workers[agent_id].pc]
    /\ UNCHANGED <<coordVars, agents_db, tasks_queue, task_results, nSubmits,
                   handed, now, mainVars, regionVars>>

worker_submit(agent_id) ==
    /\ workers[agent_id].pc = "submit"
    /\ \E result \in Results :
         submit_result(workers[agent_id].task.id, agent_id,
                       agents_db[agent_id].token, result)
    /\ workers' = [workers EXCEPT ![agent_id] = [pc |-> "beat",
                                                 task |-> None]]

\* agents_db[agent_id]["last_heartbeat"] = now; sleep(5)
worker_beat(agent_id) ==
    /\ workers[agent_id].pc = "beat"
    /\ agents_db' = [agents_db EXCEPT ![agent_id].last_heartbeat = now]
    /\ workers' = [workers EXCEPT ![agent_id].pc = "check"]
    /\ UNCHANGED <<coordVars, tasks_queue, task_results, nSubmits, handed,
                   now, mainVars, regionVars, last>>

\* a move of the thread in a cycle without a failed call
worker_cycle(agent_id) ==
    /\ agent_id \in DOMAIN workers
    /\ \/ worker_check(agent_id)
       \/ worker_poll(agent_id)
       \/ worker_submit(agent_id)
       \/ worker_beat(agent_id)

\* any move of the thread
worker(agent_id) ==
    \/ worker_cycle(agent_id)
    \/ agent_id \in DOMAIN workers /\ worker_call_fails(agent_id)

(***************************************************************************)
(* Coordinator: the admin endpoints for agents.  Both call the hub         *)
(* synchronously (requests.post), so the hub's handler runs inside the     *)
(* coordinator's step.                                                     *)
(***************************************************************************)
\* redis_client.delete(key)
redis_delete(store, key) == [k \in DOMAIN store \ {key} |-> store[k]]

\* AgentManager.register_agent of the coordinator: the record it stores
registered_agent_data(agent_id, country, server, token, capabilities) ==
    [id |-> agent_id,
     country |-> country,
     server |-> server,
     token |-> token,
     capabilities |-> capabilities,
     status |-> "offline",
     current_tasks |-> 0,
     max_tasks |-> 10,
     last_heartbeat |-> None]

\* the outcomes of a call to the hub: answered, refused connection, or no
\* answer within the timeout
HubCalls == {"ok", "fail", "timeout"}

\* POST /admin/agents
admin_create_agent(country, capabilities, hub_call) ==
    /\ ct.pc = "idle"
    /\ IF country \notin DOMAIN AGENT_SERVERS
       THEN /\ last' = [op |-> "admin_create_agent", code |-> 400,
                        country |-> country, hub_code |-> 0]
            /\ UNCHANGED <<redis_agents, agents_db, workers>>
       ELSE LET server_config == AGENT_SERVERS[country] IN
            IF hub_call # "ok"
            THEN /\ last' = [op |-> "admin_create_agent", code |-> 500,
                             country |-> country, hub_code |-> 0]
                 /\ UNCHANGED <<redis_agents, agents_db, workers>>
            ELSE IF ~verify_server_token(server_config.token)
            THEN /\ last' = [op |-> "admin_create_agent", code |-> 500,
                             country |-> country, hub_code |-> 401]
                 /\ UNCHANGED <<redis_agents, agents_db, workers>>
            ELSE /\ Cardinality(DOMAIN agents_db) < MaxAgents
                 /\ LET n == Cardinality(DOMAIN agents_db) + 1
                        agent_data == new_agent_data(AgentIds[n],
                                          AgentTokens[n], capabilities)
                    IN  /\ agents_db' = redis_set(agents_db, agent_data.id,
                                                  agent_data)
                        /\ workers' = start_agent_worker(agent_data)
                        /\ IF "server_id" \in DOMAIN server_config
                           THEN /\ redis_agents' =
                                      redis_set(redis_agents, agent_data.id,
                                          registered_agent_data(
                                              agent_data.id, country,
                                              server_config["server_id"],
                                              "hidden-token",
                                              agent_data.capabilities))
                                /\ last' = [op |-> "admin_create_agent",
                                            code |-> 200,
                                            country |-> country,
                                            hub_code |-> 200,
                                            agent_id |-> agent_data.id]
                           ELSE \* KeyError, answered by `except Exception`
                                /\ last' = [op |-> "admin_create_agent",
                                            code |-> 500,
                                            country |-> country,
                                            hub_code |-> 200,
                                            agent_id |-> agent_data.id]
                                /\ UNCHANGED redis_agents
    /\ UNCHANGED <<redis_tasks, redis_queue, ct, nChecks, nRelayFail,
                   tasks_queue, task_results, nSubmits, handed, now,
                   mainVars, regionVars>>

\* a delete that keeps the record when the stop call did not go through
delete_after_stop_only_ok(hub_call) == hub_call = "ok"

\* whether delete_agent goes on to AgentManager.delete_agent after the stop
\* call: the except clause only logs a warning
delete_after_stop(hub_call) == TRUE

\* DELETE /admin/agents/{agent_id}; `served` tells whether the hub ran its
\* stop-agent handler for a call that timed out at the coordinator
delete_agent(agent_id, hub_call, served) ==
    /\ ct.pc = "idle"
    /\ IF agent_id \notin DOMAIN redis_agents
       THEN /\ last' = [op |-> "delete_agent", code |-> 404,
                        agent_id |-> agent_id, stop_sent |-> FALSE,
                        hub_call |-> "none"]
            /\ UNCHANGED <<redis_agents, agents_db>>
       ELSE LET agent == redis_agents[agent_id]
                country == IF "country" \in DOMAIN agent THEN agent.country
                           ELSE "us"
                stop_sent == country \in DOMAIN AGENT_SERVERS
                hub_runs == /\ stop_sent
                            /\ \/ hub_call = "ok"
                               \/ hub_call = "timeout" /\ served
                            /\ verify_server_token(AGENT_SERVERS[country].token)
                            /\ agent_id \in DOMAIN agents_db
            IN  /\ agents_db' = IF hub_runs
                                THEN [agents_db EXCEPT
                                         ![agent_id].status = "stopped"]
                                ELSE agents_db
                /\ IF stop_sent => delete_after_stop(hub_call)
                   THEN /\ redis_agents' = redis_delete(redis_agents, agent_id)
                        /\ last' = [op |-> "delete_agent", code |-> 200,
                                    agent_id |-> agent_id,
                                    stop_sent |-> stop_sent,
                                    hub_call |-> IF stop_sent THEN hub_call
                                                 ELSE "none"]
                   ELSE /\ UNCHANGED redis_agents
                        /\ last' = [op |-> "delete_agent", code |-> 500,
                                    agent_id |-> agent_id,
                                    stop_sent |-> stop_sent,
                                    hub_call |-> hub_call]
    /\ UNCHANGED <<redis_tasks, redis_queue, ct, nChecks, nRelayFail,
                   tasks_queue, task_results, nSubmits, handed, workers, now,
                   mainVars, regionVars>>

(***************************************************************************)
(* Time.  datetime.now() is read in seconds and advances in steps of       *)
(* TickSeconds; the sweep and the handlers run at any of these instants.   *)
(***************************************************************************)
HEARTBEAT_TIMEOUT == 300

tick(limit) ==
    /\ now < limit * TickSeconds
    /\ now' = now + TickSeconds
    /\ UNCHANGED <<coordVars, hubVars, mainVars, regionVars, last>>

(***************************************************************************)
(* Main server: src/netpulse_main_server/backend/main.py.  The fields of a *)
(* record that no handler reads (name, location, capabilities, target,     *)
(* port, created_at) are left out.                                         *)
(***************************************************************************)
ALLOWED_CHECK_TYPES == {"http", "https", "ping", "tcp", "dns", "traceroute"}
ALLOWED_DNS_TYPES == {"A", "AAAA", "MX", "NS", "TXT", "CNAME"}

\* str(uuid.uuid4()) of register_agent and of create_check, and the tokens
\* of generate_agent_token, in the order they are drawn
MainAgentIds == <<"m1", "m2", "m3">>
MainAgentTokens == <<"sha01", "sha02", "sha03">>
CheckIds == <<"k1", "k2", "k3">>
UnknownMainAgent == "m-ff"
UnknownCheck == "k-ff"

CheckTypeInputs == {"http", "dns", "smtp"}
DnsTypeInputs == {None, "A", "SPF"}

\* validate_check_type: TRUE when it returns, FALSE when it raises 400
validate_check_type(check_type) == check_type \in ALLOWED_CHECK_TYPES

\* validate_dns_type: TRUE when it returns, FALSE when it raises 400
validate_dns_type(dns_type) ==
    ~(dns_type # None /\ dns_type \notin ALLOWED_DNS_TYPES)

\* What the client is answered when a handler raises HTTPException(code)
\* inside its `try`.  The handlers name their Redis client parameter `redis`,
\* so the clause `except redis.RedisError` looks RedisError up on the client
\* object, which has no such attribute: the AttributeError leaves the
\* handler and the framework answers 500.  (In create_check the clause
\* `except Exception` would turn the HTTPException into a 500 as well.)
raised_in_try(status_code) == 500

\* the agent_info of register_agent
new_agent_info(agent_id, token) ==
    [id |-> agent_id,
     token |-> token,
     status |-> "online",
     last_heartbeat |-> now,
     active_tasks |-> 0,
     total_tasks |-> 0]

\* POST /api/agents/register
register_agent ==
    /\ Cardinality(DOMAIN agent_store) < MaxMainAgents
    /\ LET n == Cardinality(DOMAIN agent_store) + 1
           agent_info == new_agent_info(MainAgentIds[n], MainAgentTokens[n])
       IN  /\ agent_store' = redis_set(agent_store, agent_info.id, agent_info)
           /\ active_set' = active_set \cup {agent_info.id}
           /\ active_agents' = redis_set(active_agents, agent_info.id,
                                         agent_info)
           /\ last' = [op |-> "register_agent", code |-> 200,
                       agent_id |-> agent_info.id]
    /\ UNCHANGED <<coordVars, hubVars, now, check_store, pending_tasks,
                   monitor, popped, agents_table, processes>>

\* POST /api/agents/{agent_id}/heartbeat.  The handler has no credential
\* parameter: agent_token is what the caller sends along, and is not read.
main_agent_heartbeat(agent_id, agent_token, active_tasks) ==
    /\ IF agent_id \notin DOMAIN agent_store
       THEN /\ last' = [op |-> "main_agent_heartbeat",
                        code |-> raised_in_try(404),
                        agent_id |-> agent_id, agent_token |-> agent_token]
            /\ UNCHANGED <<agent_store, active_agents>>
       ELSE LET agent == [agent_store[agent_id] EXCEPT
                             !.last_heartbeat = now,
                             !.status = "online",
                             !.active_tasks = active_tasks]
            IN  /\ agent_store' = redis_set(agent_store, agent_id, agent)
                /\ active_agents' = redis_set(active_agents, agent_id, agent)
                /\ last' = [op |-> "main_agent_heartbeat", code |-> 200,
                            agent_id |-> agent_id,
                            agent_token |-> agent_token]
    /\ UNCHANGED <<coordVars, hubVars, now, active_set, check_store,
                   pending_tasks, monitor, popped, agents_table, processes>>

\* the task_data of create_check
new_check_data(task_id, check_type, dns_type) ==
    [id |-> task_id,
     type |-> check_type,
     dns_type |-> dns_type,
     status |-> "pending",
     results |-> <<>>]

\* POST /api/checks.  limit bounds the number of checks a run creates.
create_check(limit, check_type, dns_type) ==
    /\ IF ~validate_check_type(check_type)
       THEN /\ last' = [op |-> "create_check", code |-> raised_in_try(400),
                        check_type |-> check_type, dns_type |-> dns_type]
            /\ UNCHANGED <<check_store, pending_tasks>>
       ELSE IF ~validate_dns_type(dns_type)
       THEN /\ last' = [op |-> "create_check", code |-> raised_in_try(400),
                        check_type |-> check_type, dns_type |-> dns_type]
            /\ UNCHANGED <<check_store, pending_tasks>>
       ELSE /\ Cardinality(DOMAIN check_store) < limit
            /\ LET task_id == CheckIds[Cardinality(DOMAIN check_store) + 1]
               IN  /\ check_store' =
                          redis_set(check_store, task_id,
                                    new_check_data(task_id, check_type,
                                                   dns_type))
                   /\ pending_tasks' = Append(pending_tasks, task_id)
                   /\ last' = [op |-> "create_check", code |-> 200,
                               check_type |-> check_type,
                               dns_type |-> dns_type, task_id |-> task_id]
    /\ UNCHANGED <<coordVars, hubVars, now, agent_store, active_agents,
                   active_set, monitor, popped, regionVars>>

\* a submit_result that also revives the agent it credits
credited_agent_online(agent) ==
    [agent EXCEPT !.total_tasks = @ + 1, !.status = "online"]

\* submit_result: the agent record it writes back
credited_agent(agent) == [agent EXCEPT !.total_tasks = @ + 1]

\* POST /api/results
main_submit_result(task_id, agent_id, success) ==
    /\ IF task_id \notin DOMAIN check_store
       THEN /\ last' = [op |-> "main_submit_result",
                        code |-> raised_in_try(404),
                        task_id |-> task_id, agent_id |-> agent_id]
            /\ UNCHANGED <<check_store, agent_store, active_agents>>
       ELSE /\ Len(check_store[task_id].results) < MaxResults
            /\ check_store' = [check_store EXCEPT
                  ![task_id].status =
                      IF success THEN "completed" ELSE "failed",
                  ![task_id].results =
                      Append(@, [agent_id |-> agent_id,
                                 success |-> success])]
            /\ IF agent_id \in DOMAIN agent_store
               THEN LET agent == credited_agent(agent_store[agent_id])
                    IN  /\ agent_store' = redis_set(agent_store, agent_id,
                                                    agent)
                        /\ active_agents' = redis_set(active_agents, agent_id,
                                                      agent)
               ELSE UNCHANGED <<agent_store, active_agents>>
            /\ last' = [op |-> "main_submit_result", code |-> 200,
                        task_id |-> task_id, agent_id |-> agent_id]
    /\ UNCHANGED <<coordVars, hubVars, now, active_set, pending_tasks,
                   monitor, popped, regionVars>>

\* GET /api/tasks/pending.  The handler has no parameter: caller is the
\* agent that sends the request.
get_pending_tasks(caller) ==
    /\ IF pending_tasks # <<>>
       THEN /\ pending_tasks' = Tail(pending_tasks)
            /\ popped' = Append(popped, [task |-> Head(pending_tasks),
                                         by |-> caller])
            /\ last' = [op |-> "get_pending_tasks", code |-> 200,
                        caller |-> caller, task |-> Head(pending_tasks)]
       ELSE /\ last' = [op |-> "get_pending_tasks", code |-> 200,
                        caller |-> caller, task |-> None]
            /\ UNCHANGED <<pending_tasks, popped>>
    /\ UNCHANGED <<coordVars, hubVars, now, agent_store, active_agents,
                   active_set, check_store, monitor, regionVars>>

\* the staleness test with >= for >
is_dead_at_timeout(agent) ==
    now - agent.last_heartbeat >= HEARTBEAT_TIMEOUT

\* the staleness test of cleanup_dead_agents
is_dead(agent) == now - agent.last_heartbeat > HEARTBEAT_TIMEOUT

\* one cycle of cleanup_dead_agents, after its sleep
cleanup_dead_agents ==
    /\ monitor = "running"
    /\ LET dead_agents == {a \in DOMAIN active_agents :
                              is_dead(active_agents[a])}
       IN  /\ agent_store' =
                  [a \in DOMAIN agent_store \cup dead_agents |->
                      IF a \in dead_agents
                      THEN [active_agents[a] EXCEPT !.status = "offline"]
                      ELSE agent_store[a]]
           /\ active_set' = active_set \ dead_agents
           /\ active_agents' =
                  [a \in DOMAIN active_agents \ dead_agents |->
                      active_agents[a]]
           /\ last' = [op |-> "cleanup_dead_agents", code |-> 0,
                       dead_agents |-> dead_agents]
    /\ UNCHANGED <<coordVars, hubVars, now, check_store, pending_tasks,
                   monitor, popped, regionVars>>

\* a sweep whose exception ends the background task
after_cycle_failure_ends == "dead"

\* the background task after an exception in a cycle: `except Exception`
\* prints and `while True` goes on with the next sleep
after_cycle_failure == "running"

\* one cycle of cleanup_dead_agents in which a Redis call raises: the agents
\* of `done` have been marked offline before, for `failing` the call `point`
\* (the set or the srem) raises after agent["status"] = "offline" was
\* written to the in-memory record.  The dead agents are handled in the
\* order of the dict active_agents; any order is allowed here.
cleanup_cycle_fails(done, failing, point) ==
    /\ monitor = "running"
    /\ LET dead_agents == {a \in DOMAIN active_agents :
                              is_dead(active_agents[a])}
           stored == IF point = "srem" THEN done \cup {failing} ELSE done
       IN  /\ failing \in dead_agents
           /\ done \subseteq dead_agents \ {failing}
           /\ agent_store' =
                  [a \in DOMAIN agent_store \cup stored |->
                      IF a \in stored
                      THEN [active_agents[a] EXCEPT !.status = "offline"]
                      ELSE agent_store[a]]
           /\ active_set' = active_set \ done
           /\ active_agents' =
                  [a \in DOMAIN active_agents \ done |->
                      IF a = failing
                      THEN [active_agents[a] EXCEPT !.status = "offline"]
                      ELSE active_agents[a]]
           /\ last' = [op |-> "cleanup_cycle_fails", code |-> 0,
                       dead_agents |-> dead_agents, done |-> done,
                       failing |-> failing, point |-> point]
    /\ monitor' = after_cycle_failure
    /\ UNCHANGED <<coordVars, hubVars, now, check_store, pending_tasks,
                   popped, regionVars>>

Init ==
    /\ redis_tasks = <<>>
    /\ redis_queue = [c \in DOMAIN AGENT_SERVERS |-> <<>>]
    /\ ct = ct_idle
    /\ nChecks = 0
    /\ nRelayFail = 0
    /\ redis_agents = <<>>
    /\ agents_db = <<>>
    /\ tasks_queue = <<>>
    /\ task_results = <<>>
    /\ nSubmits = 0
    /\ handed = <<>>
    /\ workers = <<>>
    /\ now = 0
    /\ agent_store = <<>>
    /\ active_agents = <<>>
    /\ active_set = {}
    /\ check_store = <<>>
    /\ pending_tasks = <<>>
    /\ monitor = "running"
    /\ popped = <<>>
    /\ agent_workers = <<>>
    /\ agents_table = <<>>
    /\ processes = <<>>
    /\ last = [op |-> "none", code |-> 0]

\* The calls of Spec carry the credentials their callers hold: the
\* coordinator the region secret, an agent its own id and token.
Next ==
    \/ \E country \in DOMAIN AGENT_SERVERS : create_task_begin(country)
    \/ create_task_loop(TRUE)
    \/ create_task_return
    \/ \E capabilities \in CapabilityChoices :
         create_agent(CONFIG.token, capabilities)
    \/ \E agent_id \in DOMAIN agents_db :
         stop_agent(agent_id, CONFIG.token)
    \/ \E agent_id \in DOMAIN agents_db :
         /\ get_pending_task(agent_id, agents_db[agent_id].token)
         /\ UNCHANGED workers
    \/ \E task_id \in TaskIdInputs, agent_id \in DOMAIN agents_db,
          result \in Results :
         /\ submit_result(task_id, agent_id, agents_db[agent_id].token, result)
         /\ UNCHANGED workers
    \/ \E agent_id \in DOMAIN agents_db :
         agent_heartbeat(agent_id, agents_db[agent_id].token)

Spec == Init /\ [][Next]_vars

(***************************************************************************)
(* The coordinator's view: checks are created for any requested country,   *)
(* relays to the hub may fail, statuses are queried, and one agent with    *)
(* the capabilities {http, ping} works on the hub.                         *)
(***************************************************************************)
NextCoordinator ==
    \/ \E country \in Countries : create_task_begin(country)
    \/ \E relay_ok \in BOOLEAN :
         /\ relay_ok \/ nRelayFail < MaxRelayFailures
         /\ create_task_loop(relay_ok)
    \/ create_task_return
    \/ \E task_id \in TaskIdQueries : get_task_status(task_id)
    \/ /\ agents_db = <<>>
       /\ create_agent(CONFIG.token, [given |-> TRUE, list |-> {"http", "ping"}])
    \/ \E agent_id \in DOMAIN agents_db :
         /\ get_pending_task(agent_id, agents_db[agent_id].token)
         /\ UNCHANGED workers
    \/ \E task_id \in TaskIdInputs, agent_id \in DOMAIN agents_db,
          result \in Results :
         /\ submit_result(task_id, agent_id, agents_db[agent_id].token, result)
         /\ UNCHANGED workers

SpecCoordinator == Init /\ [][NextCoordinator]_vars

(***************************************************************************)
(* The hub called with any credentials: the coordinator's calls carry the  *)
(* region secret or another token, the agents' calls the id and token of   *)
(* an agent, of another agent, or invented ones.                           *)
(***************************************************************************)
RelayedTasks ==
    {new_task_data(Uuids[1], check_type, CONFIG.country) :
        check_type \in {"http", "ping"}}

NextAuth ==
    \/ \E server_token \in ServerTokens :
         /\ create_agent(server_token,
                         [given |-> TRUE, list |-> {"http", "ping"}])
    \/ \E task_data \in RelayedTasks, server_token \in ServerTokens :
         /\ Len(tasks_queue) < MaxQueue
         /\ task_data.id \notin {tasks_queue[i].id : i \in 1..Len(tasks_queue)}
         /\ post_assign_task(task_data, server_token)
    \/ \E server_token \in ServerTokens : list_agents(server_token)
    \/ \E agent_id \in AgentIdInputs, server_token \in ServerTokens :
         stop_agent(agent_id, server_token)
    \/ \E task_id \in TaskIdInputs \cup {sub_task_id(Uuids[1], "http")},
          server_token \in ServerTokens :
         get_task_result(task_id, server_token)
    \/ \E agent_id \in AgentIdInputs, agent_token \in AgentTokenInputs :
         /\ get_pending_task(agent_id, agent_token)
         /\ UNCHANGED workers
    \/ \E agent_id \in AgentIdInputs, agent_token \in AgentTokenInputs :
         /\ submit_result(sub_task_id(Uuids[1], "http"), agent_id, agent_token,
                          "r1")
         /\ UNCHANGED workers
    \/ \E agent_id \in AgentIdInputs, agent_token \in AgentTokenInputs :
         agent_heartbeat(agent_id, agent_token)

SpecAuth == Init /\ [][NextAuth]_vars

(***************************************************************************)
(* The hub at work on one check whose 10 sub-tasks have all been relayed:  *)
(* agents are created, poll, submit, send heartbeats and are stopped while *)
(* time passes.  The first agent can run http and ping, the second the     *)
(* first six check types.                                                  *)
(***************************************************************************)
InitPoll ==
    /\ redis_tasks =
          [k \in {sub_task_id(Uuids[1], all_check_types[i]) :
                     i \in 1..Len(all_check_types)} |->
              new_task_data(Uuids[1], k[Len(k)], CONFIG.country)]
    /\ redis_queue =
          [c \in DOMAIN AGENT_SERVERS |->
              [i \in 1..Len(all_check_types) |->
                  sub_task_id(Uuids[1],
                      all_check_types[Len(all_check_types) + 1 - i])]]
    /\ ct = ct_idle
    /\ nChecks = 1
    /\ nRelayFail = 0
    /\ redis_agents = <<>>
    /\ agents_db = <<>>
    /\ tasks_queue =
          [i \in 1..Len(all_check_types) |->
              new_task_data(Uuids[1], all_check_types[i], CONFIG.country)]
    /\ task_results = <<>>
    /\ nSubmits = 0
    /\ handed = <<>>
    /\ workers = <<>>
    /\ now = 0
    /\ agent_store = <<>>
    /\ active_agents = <<>>
    /\ active_set = {}
    /\ check_store = <<>>
    /\ pending_tasks = <<>>
    /\ monitor = "running"
    /\ popped = <<>>
    /\ agent_workers = <<>>
    /\ agents_table = <<>>
    /\ processes = <<>>
    /\ last = [op |-> "create_task", country |-> CONFIG.country,
               code |-> 200, status |-> "success", task_id |-> Uuids[1],
               check_types |-> all_check_types,
               sub_tasks |-> [i \in 1..Len(all_check_types) |->
                                sub_task_id(Uuids[1], all_check_types[i])]]

NextPoll ==
    \/ \E capabilities \in CapabilityChoices :
         /\ capabilities.list = {"http", "ping"} <=> agents_db = <<>>
         /\ create_agent(CONFIG.token, capabilities)
    \/ \E agent_id \in DOMAIN agents_db :
         stop_agent(agent_id, CONFIG.token)
    \/ \E agent_id \in DOMAIN agents_db :
         /\ get_pending_task(agent_id, agents_db[agent_id].token)
         /\ UNCHANGED workers
    \/ \E task_id \in TaskIdInputs, agent_id \in DOMAIN agents_db,
          result \in Results :
         /\ submit_result(task_id, agent_id, agents_db[agent_id].token, result)
         /\ UNCHANGED workers
    \/ \E agent_id \in DOMAIN agents_db :
         agent_heartbeat(agent_id, agents_db[agent_id].token)
    \/ tick(MaxHubTicks)

SpecPoll == InitPoll /\ [][NextPoll]_vars

(***************************************************************************)
(* The fan-out alone: each relay of a check succeeds or fails.             *)
(***************************************************************************)
NextRelay ==
    \/ \E country \in {"ru", "auto"} : create_task_begin(country)
    \/ \E relay_ok \in BOOLEAN : create_task_loop(relay_ok)
    \/ create_task_return

SpecRelay == Init /\ [][NextRelay]_vars

(***************************************************************************)
(* The status aggregation over an arbitrary registry: the records of two   *)
(* parents and of a task stored without sub-tasks, in any status.          *)
(***************************************************************************)
RegistryKeys ==
    {sub_task_id(Uuids[1], all_check_types[i]) : i \in 1..MaxSubTasks}
        \cup {sub_task_id(Uuids[2], "http"), Uuids[3]}

registry_record(key, status) ==
    [id |-> key,
     parent_task_id |-> IF Len(key) > 2 THEN SubSeq(key, 1, 2) ELSE key,
     check_type |-> IF Len(key) > 2 THEN key[3] ELSE "http",
     country |-> "ru",
     status |-> status,
     assigned_agent |-> None]

InitStatus ==
    /\ \E keys \in SUBSET RegistryKeys :
         \E st \in [keys -> Statuses] :
            redis_tasks = [k \in keys |-> registry_record(k, st[k])]
    /\ redis_queue = [c \in DOMAIN AGENT_SERVERS |-> <<>>]
    /\ ct = ct_idle
    /\ nChecks = 2
    /\ nRelayFail = 0
    /\ redis_agents = <<>>
    /\ agents_db = <<>>
    /\ tasks_queue = <<>>
    /\ task_results = <<>>
    /\ nSubmits = 0
    /\ handed = <<>>
    /\ workers = <<>>
    /\ now = 0
    /\ agent_store = <<>>
    /\ active_agents = <<>>
    /\ active_set = {}
    /\ check_store = <<>>
    /\ pending_tasks = <<>>
    /\ monitor = "running"
    /\ popped = <<>>
    /\ agent_workers = <<>>
    /\ agents_table = <<>>
    /\ processes = <<>>
    /\ last = [op |-> "none", code |-> 0]

NextStatus == \E task_id \in TaskIdQueries \cup {Uuids[3]} :
                 get_task_status(task_id)

SpecStatus == InitStatus /\ [][NextStatus]_vars

(***************************************************************************)
(* The main server: agents register, send heartbeats or fall silent, the   *)
(* sweep runs, checks are created, polled and answered.                    *)
(***************************************************************************)
NextMain ==
    \/ register_agent /\ UNCHANGED agent_workers
    \/ \E agent_id \in DOMAIN agent_store :
         \E agent_token \in {agent_store[agent_id].token, "forged"} :
            /\ main_agent_heartbeat(agent_id, agent_token, 0)
            /\ UNCHANGED agent_workers
    \/ /\ main_agent_heartbeat(UnknownMainAgent, "forged", 0)
       /\ UNCHANGED agent_workers
    \/ \E check_type \in CheckTypeInputs, dns_type \in DnsTypeInputs :
         create_check(MaxCreatedChecks, check_type, dns_type)
    \/ \E task_id \in DOMAIN check_store \cup {UnknownCheck},
          agent_id \in DOMAIN agent_store, success \in BOOLEAN :
         main_submit_result(task_id, agent_id, success)
    \/ \E caller \in DOMAIN agent_store : get_pending_tasks(caller)
    \/ cleanup_dead_agents
    \/ tick(MaxTicks)

SpecMain == Init /\ [][NextMain]_vars

(***************************************************************************)
(* The liveness sweep with failing Redis calls: agents register, send      *)
(* heartbeats or fall silent while time passes, and a cycle of the sweep   *)
(* either runs through or is cut short by an exception.  The sweep runs    *)
(* every 60 seconds for ever, and a failure is a failure of some cycles,   *)
(* not of all: a cycle that runs through comes eventually.                 *)
(***************************************************************************)
SweptAgents == {MainAgentIds[n] : n \in 1..MaxMainAgents}

NextSweep ==
    \/ register_agent /\ UNCHANGED agent_workers
    \/ \E agent_id \in DOMAIN agent_store :
         /\ main_agent_heartbeat(agent_id, agent_store[agent_id].token, 0)
         /\ UNCHANGED agent_workers
    \/ cleanup_dead_agents
    \/ \E failing \in DOMAIN active_agents,
          done \in SUBSET DOMAIN active_agents, point \in {"set", "srem"} :
         cleanup_cycle_fails(done, failing, point)
    \/ tick(MaxTicks)

SpecSweep ==
    /\ Init
    /\ [][NextSweep]_vars
    /\ WF_vars(cleanup_dead_agents)

(***************************************************************************)
(* The admin endpoints for agents.  The coordinator keeps its registry in  *)
(* Redis, which outlives the process: it starts on a registry that holds   *)
(* none, some or all of the records of two agents, as                      *)
(* AgentManager.register_agent writes them, one of a region with a hub and *)
(* one of a region without.                                                *)
(***************************************************************************)
StoredAgents ==
    { registered_agent_data(AgentIds[1], "ru", "agent-server-ru-01",
                            "hidden-token", {"http", "ping"}),
      registered_agent_data("agent-us-01", "us", "agent-server-us-01",
                            "hidden-token", {"http", "ping"}) }

InitAdmin ==
    /\ redis_tasks = <<>>
    /\ redis_queue = [c \in DOMAIN AGENT_SERVERS |-> <<>>]
    /\ ct = ct_idle
    /\ nChecks = 0
    /\ nRelayFail = 0
    /\ \E stored \in SUBSET StoredAgents :
         redis_agents = [a \in {r.id : r \in stored} |->
                            CHOOSE r \in stored : r.id = a]
    /\ agents_db = <<>>
    /\ tasks_queue = <<>>
    /\ task_results = <<>>
    /\ nSubmits = 0
    /\ handed = <<>>
    /\ workers = <<>>
    /\ now = 0
    /\ agent_store = <<>>
    /\ active_agents = <<>>
    /\ active_set = {}
    /\ check_store = <<>>
    /\ pending_tasks = <<>>
    /\ monitor = "running"
    /\ popped = <<>>
    /\ agent_workers = <<>>
    /\ agents_table = <<>>
    /\ processes = <<>>
    /\ last = [op |-> "none", code |-> 0]

NextAdmin ==
    \/ \E country \in Countries \ {"auto"},
          capabilities \in CapabilityChoices, hub_call \in HubCalls :
         admin_create_agent(country, capabilities, hub_call)
    \/ \E agent_id \in DOMAIN redis_agents \cup DOMAIN agents_db
                           \cup {UnknownAgent},
          hub_call \in HubCalls, served \in BOOLEAN :
         delete_agent(agent_id, hub_call, served)

SpecAdmin == InitAdmin /\ [][NextAdmin]_vars

(***************************************************************************)
(* The hub with its worker threads: agents are created, each with its      *)
(* thread, sub-tasks are relayed (one of them without the key `target`),   *)
(* agents are stopped and sent heartbeats from outside, and calls of the   *)
(* threads may fail.  A thread that can move does move (its sleeps end).   *)
(***************************************************************************)
WorkerTasks ==
    RelayedTasks \cup
        { [k \in DOMAIN new_task_data(Uuids[2], "http", CONFIG.country)
                \ {"target"} |->
              new_task_data(Uuids[2], "http", CONFIG.country)[k]] }

WorkerAgents == {AgentIds[n] : n \in 1..MaxAgents}

NextWorker ==
    \/ create_agent(CONFIG.token, [given |-> TRUE, list |-> {"http", "ping"}])
    \/ \E task_data \in WorkerTasks :
         /\ Len(tasks_queue) < MaxQueue
         /\ task_data.id \notin {tasks_queue[i].id : i \in 1..Len(tasks_queue)}
         /\ post_assign_task(task_data, CONFIG.token)
    \/ \E agent_id \in DOMAIN agents_db :
         stop_agent(agent_id, CONFIG.token)
    \/ \E agent_id \in DOMAIN agents_db :
         agent_heartbeat(agent_id, agents_db[agent_id].token)
    \/ \E agent_id \in WorkerAgents : worker(agent_id)

SpecWorker ==
    /\ Init
    /\ [][NextWorker]_vars
    /\ \A agent_id \in WorkerAgents : WF_vars(worker(agent_id))

(***************************************************************************)
(* The same without failed calls, without malformed sub-tasks and without  *)
(* heartbeats from outside: every thread runs its cycle.                   *)
(***************************************************************************)
NextProgress ==
    \/ create_agent(CONFIG.token, [given |-> TRUE, list |-> {"http", "ping"}])
    \/ \E task_data \in RelayedTasks :
         /\ Len(tasks_queue) < MaxQueue
         /\ task_data.id \notin {tasks_queue[i].id : i \in 1..Len(tasks_queue)}
         /\ post_assign_task(task_data, CONFIG.token)
    \/ \E agent_id \in DOMAIN agents_db :
         stop_agent(agent_id, CONFIG.token)
    \/ \E agent_id \in WorkerAgents : worker_cycle(agent_id)

SpecProgress ==
    /\ Init
    /\ [][NextProgress]_vars
    /\ \A agent_id \in WorkerAgents : WF_vars(worker_cycle(agent_id))

(***************************************************************************)
(* Capability matching: the ten sub-tasks of one check are in the hub's    *)
(* queue; agents are created without a capability list (the default set)   *)
(* or with a list of their own, and poll.                                   *)
(***************************************************************************)
MatchCapabilityChoices ==
    { [given |-> FALSE, list |-> {}],
      [given |-> TRUE, list |-> {"dns", "dns_mx", "https"}],
      [given |-> TRUE, list |-> {"http", "traceroute"}] }

NextMatch ==
    \/ \E capabilities \in MatchCapabilityChoices :
         create_agent(CONFIG.token, capabilities)
    \/ \E agent_id \in DOMAIN agents_db :
         /\ get_pending_task(agent_id, agents_db[agent_id].token)
         /\ UNCHANGED workers

SpecMatch == InitPoll /\ [][NextMatch]_vars

(***************************************************************************)
(* The agent worker: src/netpulse_agent_server/agent_worker.py.  A worker  *)
(* process is started with `--id <name>`; it registers with the main       *)
(* server over HTTP and takes tasks off the Redis list pending_tasks       *)
(* itself.  One worker is a record: pc is its position in work(), token    *)
(* is self.token, heartbeat_count the local of work().  Two fields are     *)
(* history: issued is the agent_id the registration answered (the worker   *)
(* reads only data["token"]), sent holds the instant of the last           *)
(* heartbeat it sent.                                                      *)
(***************************************************************************)
HeartbeatEvery == 30

WorkerNames == {"RU-agent-1", "RU-agent-2"}

\* AgentWorker.__init__, before work() runs
new_worker ==
    [pc |-> "register", token |-> None, heartbeat_count |-> 0,
     issued |-> None, sent |-> {}]

\* work(): register() answered 200, self.token is kept
work_register(w) ==
    /\ agent_workers[w].pc = "register"
    /\ register_agent
    /\ agent_workers' =
          [agent_workers EXCEPT
              ![w].pc = "heartbeat",
              ![w].token = agent_store'[last'.agent_id].token,
              ![w].issued = last'.agent_id]

\* work(): register() returned False (no answer, or not a 200): sys.exit(1)
work_register_fails(w) ==
    /\ agent_workers[w].pc = "register"
    /\ agent_workers' = [agent_workers EXCEPT ![w].pc = "exited"]
    /\ last' = [op |-> "work_register_fails", code |-> 1, worker |-> w]
    /\ UNCHANGED <<coordVars, hubVars, now, mainVars, agents_table,
                   processes>>

\* work(): the top of the loop.  Every HeartbeatEvery-th pass calls
\* send_heartbeat, which posts to /api/agents/{self.agent_id}/heartbeat and
\* only prints when the answer is not 200.
work_heartbeat(w) ==
    /\ agent_workers[w].pc = "heartbeat"
    /\ IF agent_workers[w].heartbeat_count % HeartbeatEvery = 0
       THEN /\ main_agent_heartbeat(w, agent_workers[w].token, 0)
            /\ agent_workers' = [agent_workers EXCEPT ![w].pc = "pop",
                                                      ![w].sent = {now}]
       ELSE /\ agent_workers' = [agent_workers EXCEPT ![w].pc = "pop"]
            /\ UNCHANGED <<coordVars, hubVars, now, mainVars, agents_table,
                           processes, last>>

\* a worker that reaches line 74 and pushes the task back
pending_after_pop_returned(rest, task_data) == Append(rest, task_data)

\* work(): the list pending_tasks after a pop that returned task_data.
\* json is not imported, so json.loads raises NameError, `except Exception`
\* takes over and the rpush of line 74 is not reached.
pending_after_pop(rest, task_data) == rest

\* work(): lpop and the rest of the pass.  With a task the pass ends in the
\* exception handler (sleep 5) and heartbeat_count stays; without one it
\* sleeps 1 and counts.  Only heartbeat_count % HeartbeatEvery is ever read,
\* so the remainder is what is kept.
work_pop(w) ==
    /\ agent_workers[w].pc = "pop"
    /\ IF pending_tasks # <<>>
       THEN /\ pending_tasks' = pending_after_pop(Tail(pending_tasks),
                                                  Head(pending_tasks))
            /\ popped' = Append(popped, [task |-> Head(pending_tasks),
                                         by |-> w])
            /\ agent_workers' = [agent_workers EXCEPT ![w].pc = "heartbeat"]
            /\ last' = [op |-> "work_pop", code |-> 0, worker |-> w,
                        task |-> Head(pending_tasks)]
       ELSE /\ agent_workers' =
                  [agent_workers EXCEPT
                      ![w].pc = "heartbeat",
                      ![w].heartbeat_count = (@ + 1) % HeartbeatEvery]
            /\ last' = [op |-> "work_pop", code |-> 0, worker |-> w,
                        task |-> None]
            /\ UNCHANGED <<pending_tasks, popped>>
    /\ UNCHANGED <<coordVars, hubVars, now, agent_store, active_agents,
                   active_set, check_store, monitor, agents_table,
                   processes>>

\* work(): KeyboardInterrupt sets self.running = False and the loop ends
work_interrupt(w) ==
    /\ agent_workers[w].pc \in {"heartbeat", "pop"}
    /\ agent_workers' = [agent_workers EXCEPT ![w].pc = "exited"]
    /\ last' = [op |-> "work_interrupt", code |-> 0, worker |-> w]
    /\ UNCHANGED <<coordVars, hubVars, now, mainVars, agents_table,
                   processes>>

\* AgentWorker.work, one step of the worker w
work(w) ==
    \/ work_register(w)
    \/ work_register_fails(w)
    \/ work_heartbeat(w)
    \/ work_pop(w)
    \/ work_interrupt(w)

(***************************************************************************)
(* The queue pending_tasks and its consumers: checks are created while     *)
(* the workers pop the list and registered agents ask the main server for  *)
(* a task.  Each lpop and rpush is one Redis command.                      *)
(***************************************************************************)
InitQueue ==
    /\ redis_tasks = <<>>
    /\ redis_queue = [c \in DOMAIN AGENT_SERVERS |-> <<>>]
    /\ ct = ct_idle
    /\ nChecks = 0
    /\ nRelayFail = 0
    /\ redis_agents = <<>>
    /\ agents_db = <<>>
    /\ tasks_queue = <<>>
    /\ task_results = <<>>
    /\ nSubmits = 0
    /\ handed = <<>>
    /\ workers = <<>>
    /\ now = 0
    /\ agent_store = <<>>
    /\ active_agents = <<>>
    /\ active_set = {}
    /\ check_store = <<>>
    /\ pending_tasks = <<>>
    /\ monitor = "running"
    /\ popped = <<>>
    /\ agent_workers = [w \in WorkerNames |-> new_worker]
    /\ agents_table = <<>>
    /\ processes = <<>>
    /\ last = [op |-> "none", code |-> 0]

NextQueue ==
    \/ \E w \in WorkerNames : work(w)
    \/ create_check(MaxQueuedChecks, "http", None)
    \/ \E caller \in DOMAIN agent_store : get_pending_tasks(caller)

SpecQueue == InitQueue /\ [][NextQueue]_vars

(***************************************************************************)
(* The workers and the liveness sweep: the workers register and run their  *)
(* loop while time passes and the sweep of the main server runs.           *)
(***************************************************************************)
\* the worker that is started
HeartbeatWorkers == {"RU-agent-1"}

NextHeartbeat ==
    \/ \E w \in HeartbeatWorkers : work(w)
    \/ cleanup_dead_agents
    \/ tick(MaxTicks)

SpecHeartbeat == InitQueue /\ [][NextHeartbeat]_vars

(***************************************************************************)
(* The regional hub: src/netpulse_agent_server/regional_hub.py.  The       *)
(* sqlite table agents is a function from id to row, of which process_id   *)
(* and status are kept.  processes holds what subprocess.Popen started:    *)
(* the pid of a process is its index.  An agent id f"{prefix}-{i + 1}" is  *)
(* the record of its two parts.                                            *)
(***************************************************************************)
\* the agent_prefix of create-agents: absent, empty or given
AgentPrefixInputs == {None, "", "EU-agent"}

\* create_agents: `if not agent_prefix` gives f"{REGION_ID}-agent", and
\* REGION_ID is "RU" unless the environment sets it
prefix_or_default(agent_prefix) ==
    IF agent_prefix \in {None, ""} THEN "RU-agent" ELSE agent_prefix

\* create_agents: agent_id = f"{agent_prefix}-{i + 1}", i from range(count)
region_agent_id(agent_prefix, i) == [prefix |-> agent_prefix, n |-> i + 1]

\* POST /api/agents/create: for each i a process is started and its row is
\* written with INSERT OR REPLACE, which overwrites a row of the same id
create_agents(count, agent_prefix) ==
    /\ Len(processes) + count <= MaxProcesses
    /\ LET prefix == prefix_or_default(agent_prefix)
           ids == {region_agent_id(prefix, i) : i \in 0..(count - 1)}
           pid_of(id) == Len(processes) + id.n
       IN  /\ processes' =
                  [pid \in 1..(Len(processes) + count) |->
                      IF pid <= Len(processes)
                      THEN processes[pid]
                      ELSE [agent_id |->
                                region_agent_id(prefix,
                                                pid - Len(processes) - 1),
                            state |-> "running"]]
           /\ agents_table' =
                  [id \in DOMAIN agents_table \cup ids |->
                      IF id \in ids
                      THEN [process_id |-> pid_of(id), status |-> "running"]
                      ELSE agents_table[id]]
           /\ last' = [op |-> "create_agents", code |-> 200,
                       created_agents |-> ids]
    /\ UNCHANGED <<coordVars, hubVars, now, mainVars, agent_workers>>

\* os.kill(pid, SIGTERM): TRUE when the signal is delivered, FALSE when it
\* raises ProcessLookupError.  A process that has ended is still there for
\* os.kill until the hub's runtime has collected it: reaped tells which.
kill_delivered(pid, reaped) ==
    /\ pid \in DOMAIN processes
    /\ \/ processes[pid].state = "running"
       \/ ~reaped

\* POST /api/agents/{agent_id}/stop
regional_stop_agent(agent_id, reaped) ==
    /\ IF agent_id \notin DOMAIN agents_table
       THEN /\ last' = [op |-> "regional_stop_agent", code |-> 404,
                        agent_id |-> agent_id]
            /\ UNCHANGED <<agents_table, processes>>
       ELSE LET pid == agents_table[agent_id].process_id
            IN  IF kill_delivered(pid, reaped)
                THEN /\ processes' =
                            [processes EXCEPT ![pid].state = "ended"]
                     /\ agents_table' =
                            [agents_table EXCEPT
                                ![agent_id].status = "stopped"]
                     /\ last' = [op |-> "regional_stop_agent", code |-> 200,
                                 agent_id |-> agent_id]
                ELSE /\ agents_table' =
                            [agents_table EXCEPT ![agent_id].status = "dead"]
                     /\ last' = [op |-> "regional_stop_agent", code |-> 404,
                                 agent_id |-> agent_id]
                     /\ UNCHANGED processes
    /\ UNCHANGED <<coordVars, hubVars, now, mainVars, agent_workers>>

\* a spawned agent_worker.py ends by itself: its registration fails and
\* work() calls sys.exit(1)
process_exits(pid) ==
    /\ pid \in DOMAIN processes
    /\ processes[pid].state = "running"
    /\ processes' = [processes EXCEPT ![pid].state = "ended"]
    /\ last' = [op |-> "process_exits", code |-> 1, pid |-> pid]
    /\ UNCHANGED <<coordVars, hubVars, now, mainVars, agent_workers,
                   agents_table>>

\* the ids stop-agent is called with: those of the table and one it lacks
UnknownRegionAgent == [prefix |-> "RU-agent", n |-> 99]

NextRegion ==
    \/ \E count \in 0..MaxCount, agent_prefix \in AgentPrefixInputs :
         create_agents(count, agent_prefix)
    \/ \E agent_id \in DOMAIN agents_table \cup {UnknownRegionAgent},
          reaped \in BOOLEAN :
         regional_stop_agent(agent_id, reaped)
    \/ \E pid \in DOMAIN processes : process_exits(pid)

SpecRegion == Init /\ [][NextRegion]_vars

(***************************************************************************)
(* Properties.                                                             *)
(***************************************************************************)
RECURSIVE SumOver(_, _)
SumOver(f, S) ==
    IF S = {} THEN 0
    ELSE LET x == CHOOSE y \in S : TRUE IN f[x] + SumOver(f, S \ {x})

QueueIndex == 1..Len(tasks_queue)
OnlineAgents == {a \in DOMAIN agents_db : agents_db[a].status = "online"}
AssignedTo(a) ==
    {i \in QueueIndex : /\ tasks_queue[i].status = "assigned"
                        /\ tasks_queue[i].assigned_agent = a}

\* C1: over all interleavings of polls by verified online agents, no
\* sub-task id is returned by two polls.
C1_HandedOutAtMostOnce ==
    \A t \in DOMAIN handed : Len(handed[t]) <= 1

\* C1 witness: two agents that can both run some sub-task have each been
\* handed a sub-task, one of them that one.
C1_Witness ==
    \E a, b \in DOMAIN agents_db, t, u \in DOMAIN handed :
        /\ a # b /\ t # u
        /\ handed[t] = <<a>> /\ handed[u] = <<b>>
        /\ \E i \in QueueIndex :
              /\ tasks_queue[i].id = t
              /\ tasks_queue[i].check_type \in agents_db[b].capabilities

\* C2: a second accepted submission by an agent for a sub-task that was
\* assigned to it leaves the agent's current_tasks as it was (stated for
\* the hub's only agent, so that the earlier submission was its own).
C2_RepeatSubmitKeepsLoad ==
    (/\ last.op = "submit_result" /\ last.code = 200 /\ last.repeat
     /\ DOMAIN agents_db = {last.agent_id}
     /\ \E i \in QueueIndex :
           /\ tasks_queue[i].id = last.task_id
           /\ tasks_queue[i].assigned_agent = last.agent_id)
        => agents_db[last.agent_id].current_tasks = last.load_before

\* C3: the status of a parent task counts as completed every sub-task of it
\* that an agent polled and for which the hub has accepted a result.
C3_StatusCountsSubmitted ==
    (last.op = "get_task_status" /\ last.code = 200)
        => dict_get(last.status_summary, "completed") >=
              Cardinality({i \in QueueIndex :
                  /\ tasks_queue[i].parent_task_id = last.task_id
                  /\ tasks_queue[i].status = "completed"
                  /\ tasks_queue[i].assigned_agent # None
                  /\ tasks_queue[i].id \in DOMAIN task_results})

\* C4: a sub-task's status changes only pending -> assigned,
\* assigned -> completed or assigned -> failed.
LegalStatusStep(old, new) ==
    \/ old = new
    \/ old = "pending" /\ new = "assigned"
    \/ old = "assigned" /\ new \in {"completed", "failed"}

C4_StatusOrder ==
    [][\A i \in QueueIndex :
          LegalStatusStep(tasks_queue[i].status, tasks_queue'[i].status)]_vars

\* C5: every agent's current_tasks stays within 0..max_tasks.
C5_LoadWithinCapacity ==
    \A a \in DOMAIN agents_db :
        /\ 0 <= agents_db[a].current_tasks
        /\ agents_db[a].current_tasks <= agents_db[a].max_tasks

\* C5 witness: an agent holding max_tasks sub-tasks polled and was
\* answered busy.
C5_Witness ==
    /\ last.op = "get_pending_task" /\ last.status = "busy"
    /\ agents_db[last.agent_id].current_tasks = max_tasks
    /\ Cardinality(AssignedTo(last.agent_id)) = max_tasks

\* C6: an agent's current_tasks equals the number of sub-tasks assigned to
\* it.
C6_LoadEqualsAssigned ==
    \A a \in DOMAIN agents_db :
        agents_db[a].current_tasks = Cardinality(AssignedTo(a))

\* C7: once a poll has set a sub-task's assigned_agent, no later step
\* changes it, and no sub-task is handed to two agents.
C7_AssignedToOneAgent ==
    /\ [](\A t \in DOMAIN handed : Cardinality(Range(handed[t])) <= 1)
    /\ [][\A i \in QueueIndex :
             tasks_queue[i].assigned_agent # None
                => tasks_queue'[i].assigned_agent
                       = tasks_queue[i].assigned_agent]_vars

\* C7 witness: an online agent below capacity polled while a sub-task it can
\* run was held by another agent, and the sub-task stayed with that agent.
C7_Witness ==
    /\ last.op = "get_pending_task"
    /\ last.status \in {"task", "no_tasks"}
    /\ \E i \in QueueIndex :
          /\ tasks_queue[i].status = "assigned"
          /\ tasks_queue[i].assigned_agent # last.agent_id
          /\ tasks_queue[i].check_type \in agents_db[last.agent_id].capabilities
          /\ handed[tasks_queue[i].id] = <<tasks_queue[i].assigned_agent>>

\* C8: a create-task that returns has created one pending sub-task per check
\* type of the catalog of 10, with the ids task id + check type, each stored
\* with the returned task id as parent and pushed once onto the queue of the
\* country; the answer lists these ids.
C8_FanOutComplete ==
    (last.op = "create_task" /\ last.code = 200) =>
        LET ids == last.sub_tasks
            queue == redis_queue[last.country]
        IN  /\ Len(all_check_types) = 10
            /\ Len(ids) = Len(all_check_types)
            /\ \A i \in 1..Len(ids) :
                  /\ ids[i] = last.task_id \o <<all_check_types[i]>>
                  /\ ids[i] \in DOMAIN redis_tasks
                  /\ redis_tasks[ids[i]].status = "pending"
                  /\ redis_tasks[ids[i]].parent_task_id = last.task_id
                  /\ redis_tasks[ids[i]].check_type = all_check_types[i]
                  /\ Cardinality({j \in 1..Len(queue) : queue[j] = ids[i]}) = 1
            /\ \A i, j \in 1..Len(ids) : i # j => ids[i] # ids[j]
            /\ {k \in DOMAIN redis_tasks :
                   redis_tasks[k].parent_task_id = last.task_id} = Range(ids)

\* C8 witness: a create-task asked for "auto" or "ru" has returned, one of
\* its relays having failed.
C8_Witness ==
    /\ last.op = "create_task" /\ last.code = 200
    /\ Len(tasks_queue) < Len(last.sub_tasks)

\* C9: the counts of a status answer sum to the number of sub-tasks found,
\* and completed is true exactly when each of them is completed.
C9_CountsSumAndCompleted ==
    (last.op = "get_task_status" /\ last.code = 200) =>
        /\ SumOver(last.status_summary, DOMAIN last.status_summary)
              = Cardinality(last.checks)
        /\ last.completed
              <=> \A k \in last.checks : redis_tasks[k].status = "completed"

\* C9 witness: a status answer over several sub-tasks, some completed and
\* some not.
C9_Witness ==
    /\ last.op = "get_task_status" /\ last.code = 200
    /\ Cardinality(last.checks) >= 3
    /\ \E k \in last.checks : redis_tasks[k].status = "completed"
    /\ \E k \in last.checks : redis_tasks[k].status = "failed"

\* C10: a create-task for a country that is not configured is answered 400
\* and changes no task record, no queue and nothing on the hub.
C10_UnknownRegionRejected ==
    [][(/\ last'.op \in {"create_task", "create_task_begin"}
        /\ last' # last
        /\ last'.country \notin (DOMAIN AGENT_SERVERS) \cup {"auto"})
          => /\ last'.code = 400
             /\ UNCHANGED <<redis_tasks, redis_queue, ct, nChecks,
                            tasks_queue, agents_db, task_results>>]_vars

\* C10 witness: a create-task for an unknown country was refused while the
\* registry held the sub-tasks of an earlier check.
C10_Witness ==
    /\ last.op = "create_task" /\ last.code = 400
    /\ last.country \notin DOMAIN AGENT_SERVERS
    /\ DOMAIN redis_tasks # {}
    /\ tasks_queue # <<>>

\* C11: a poll made for an agent that the sweep has marked offline is
\* answered without a task.
C11_PollAfterSweepOffline ==
    (/\ last.op = "get_pending_tasks"
     /\ last.caller \in DOMAIN agent_store
     /\ agent_store[last.caller].status = "offline")
        => last.task = None

\* C12: a heartbeat sent for a registered agent with a token that is not the
\* agent's token is answered 401.
C12_ForgedTokenRejected ==
    (/\ last.op = "main_agent_heartbeat"
     /\ last.agent_id \in DOMAIN agent_store
     /\ last.agent_token # agent_store[last.agent_id].token)
        => last.code = 401

\* C17: every step that takes an existing agent from offline to online is a
\* heartbeat or a poll of that agent.
C17_OnlineOnlyByHeartbeatOrPoll ==
    [][\A a \in DOMAIN agent_store :
          (/\ agent_store[a].status = "offline"
           /\ agent_store'[a].status = "online")
             => \/ /\ last'.op = "main_agent_heartbeat"
                   /\ last'.code = 200
                   /\ last'.agent_id = a
                \/ /\ last'.op = "get_pending_tasks"
                   /\ last'.caller = a]_vars

\* C17 witness: an agent that the sweep had marked offline and that has been
\* credited with a result is online again after its heartbeat.
C17_Witness ==
    /\ last.op = "main_agent_heartbeat" /\ last.code = 200
    /\ agent_store[last.agent_id].status = "online"
    /\ last.agent_id \notin active_set
    /\ agent_store[last.agent_id].total_tasks > 0

\* C18: a create-check with a check type or a DNS type outside the allowed
\* lists is answered 400.
C18_InvalidTypeRejected ==
    (/\ last.op = "create_check"
     /\ \/ last.check_type \notin ALLOWED_CHECK_TYPES
        \/ /\ last.dns_type # None
           /\ last.dns_type \notin ALLOWED_DNS_TYPES)
        => last.code = 400

\* C20: a sweep sets every agent whose last_heartbeat is older than
\* HEARTBEAT_TIMEOUT to offline and takes it out of the active-agent index,
\* changes nothing else of it, and leaves the other agents, the checks and
\* the queues as they were.
C20_SweepFrame ==
    [][(last'.op = "cleanup_dead_agents" /\ last' # last) =>
          /\ check_store' = check_store
          /\ pending_tasks' = pending_tasks
          /\ UNCHANGED <<coordVars, hubVars>>
          /\ DOMAIN agent_store' = DOMAIN agent_store
          /\ \A a \in DOMAIN agent_store :
                IF now - agent_store[a].last_heartbeat > HEARTBEAT_TIMEOUT
                THEN /\ agent_store'[a] =
                            [agent_store[a] EXCEPT !.status = "offline"]
                     /\ a \notin active_set'
                     /\ a \notin DOMAIN active_agents'
                ELSE /\ agent_store'[a] = agent_store[a]
                     /\ a \in active_set' <=> a \in active_set
                     /\ a \in DOMAIN active_agents'
                           <=> a \in DOMAIN active_agents]_vars

\* C20 witness: a sweep has marked one agent offline and left a fresh one
\* online, while the only check, handed out by a poll, is still pending.
C20_Witness ==
    /\ last.op = "cleanup_dead_agents"
    /\ last.dead_agents # {}
    /\ \E a \in last.dead_agents : agent_store[a].status = "offline"
    /\ \E b \in DOMAIN active_agents : agent_store[b].status = "online"
    /\ pending_tasks = <<>>
    /\ \E k \in DOMAIN check_store : check_store[k].status = "pending"

\* C16: whichever relays fail, a create-task returns success with the ids of
\* all 10 sub-tasks, each stored as pending and queued; and no step of the
\* fan-out removes or changes a record, a queue entry or a relayed task
\* written before.
C16_RelayFailureSwallowed ==
    /\ []((last.op = "create_task" /\ last.code = 200) =>
            /\ last.status = "success"
            /\ Len(last.sub_tasks) = Len(all_check_types)
            /\ Len(last.sub_tasks) = 10
            /\ Len(tasks_queue) + nRelayFail >= Len(last.sub_tasks)
            /\ \A i \in 1..Len(last.sub_tasks) :
                  LET id == last.sub_tasks[i] IN
                  /\ id = sub_task_id(last.task_id, all_check_types[i])
                  /\ id \in DOMAIN redis_tasks
                  /\ redis_tasks[id].status = "pending"
                  /\ id \in Range(redis_queue[last.country]))
    /\ [][ct.pc = "loop" =>
            /\ \A k \in DOMAIN redis_tasks :
                  /\ k \in DOMAIN redis_tasks'
                  /\ redis_tasks'[k] = redis_tasks[k]
            /\ \A c \in DOMAIN redis_queue :
                  LET old == redis_queue[c]
                      new == redis_queue'[c]
                  IN  /\ Len(new) >= Len(old)
                      /\ SubSeq(new, Len(new) - Len(old) + 1, Len(new)) = old
            /\ Len(tasks_queue') >= Len(tasks_queue)
            /\ SubSeq(tasks_queue', 1, Len(tasks_queue)) = tasks_queue]_vars

\* C16 witness: a create-task has returned although its first and its last
\* relay failed, and others in between; some relays succeeded.
C16_Witness ==
    /\ last.op = "create_task" /\ last.code = 200
    /\ nRelayFail >= 3
    /\ tasks_queue # <<>>
    /\ \A i \in 1..Len(tasks_queue) :
          tasks_queue[i].id \notin {last.sub_tasks[1], last.sub_tasks[10]}

\* C13: a call of create-agent, assign-task, list agents, stop-agent or
\* task-result with a server token other than the hub's is answered 401 and
\* leaves the hub's agents, queue and results as they were.
C13_WrongServerTokenRejected ==
    [][(/\ last'.op \in {"create_agent", "assign_task", "list_agents",
                         "stop_agent", "get_task_result"}
        /\ last' # last
        /\ last'.server_token # CONFIG.token)
          => /\ last'.code = 401
             /\ UNCHANGED <<agents_db, tasks_queue, task_results>>]_vars

\* C13 witness: a stop-agent with a wrong server token was refused while the
\* hub held an online agent, a queued task and a result.
C13_Witness ==
    /\ last.op = "stop_agent" /\ last.code = 401
    /\ last.agent_id \in DOMAIN agents_db
    /\ agents_db[last.agent_id].status = "online"
    /\ tasks_queue # <<>>
    /\ DOMAIN task_results # {}

\* the pending sub-tasks of the hub queue that agent a can run
Eligible(a) ==
    {i \in QueueIndex :
        /\ tasks_queue[i].status = "pending"
        /\ tasks_queue[i].check_type \in agents_db[a].capabilities}

\* a step that is a poll of the hub by a verified agent
PollStep ==
    /\ last'.op = "get_pending_task"
    /\ last' # last
    /\ last'.code = 200
    /\ last'.agent_id \in DOMAIN agents_db

\* C14: a poll by a verified online agent below capacity is answered with
\* the earliest sub-task of the queue that is pending and that the agent can
\* run, and with no_tasks exactly when there is none.
C14_FirstEligibleInOrder ==
    [][(/\ PollStep
        /\ agents_db[last'.agent_id].status = "online"
        /\ agents_db[last'.agent_id].current_tasks
              < agents_db[last'.agent_id].max_tasks)
          => /\ last'.status \in {"task", "no_tasks"}
             /\ last'.status = "no_tasks" <=> Eligible(last'.agent_id) = {}
             /\ last'.status = "task" =>
                   \E i \in Eligible(last'.agent_id) :
                      /\ last'.task.id = tasks_queue[i].id
                      /\ \A j \in Eligible(last'.agent_id) : i <= j]_vars

\* C14 witness: an agent was handed a sub-task that sits in the queue behind
\* a pending sub-task it cannot run.
C14_Witness ==
    /\ last.op = "get_pending_task" /\ last.status = "task"
    /\ \E i, j \in QueueIndex :
          /\ j < i
          /\ tasks_queue[i].id = last.task.id
          /\ tasks_queue[j].status = "pending"
          /\ tasks_queue[j].check_type
                \notin agents_db[last.agent_id].capabilities

\* C15: a poll by a verified online agent at capacity is answered busy; and
\* a poll answered busy, offline or no_tasks changes no task and no agent
\* record.
C15_BusyAndRefusalsFrame ==
    [][PollStep =>
          /\ (/\ agents_db[last'.agent_id].status = "online"
              /\ agents_db[last'.agent_id].current_tasks
                    >= agents_db[last'.agent_id].max_tasks)
                => last'.status = "busy"
          /\ last'.status \in {"busy", "offline", "no_tasks"}
                => UNCHANGED <<tasks_queue, agents_db, task_results,
                               redis_tasks, redis_queue>>]_vars

\* C15 witness: an agent holding max_tasks sub-tasks was answered busy, some
\* time after its last heartbeat, while a pending sub-task it can run waits.
C15_Witness ==
    /\ last.op = "get_pending_task" /\ last.status = "busy"
    /\ agents_db[last.agent_id].last_heartbeat < now
    /\ Eligible(last.agent_id) # {}

\* C19: a poll that hands out a sub-task sets that sub-task, which was
\* pending, to assigned with the polling agent as assigned_agent, adds 1 to
\* the agent's current_tasks and sets its last_heartbeat to the time of the
\* poll; the other sub-tasks, the other agents, the order of the queue and
\* the results stay as they were.
C19_AssignmentFrame ==
    [][(PollStep /\ last'.status = "task") =>
          LET a == last'.agent_id
              t == last'.task.id
          IN  /\ Len(tasks_queue') = Len(tasks_queue)
              /\ \A j \in QueueIndex :
                    IF tasks_queue[j].id = t
                    THEN /\ tasks_queue[j].status = "pending"
                         /\ tasks_queue'[j] =
                               [tasks_queue[j] EXCEPT
                                   !.status = "assigned",
                                   !.assigned_agent = a]
                    ELSE tasks_queue'[j] = tasks_queue[j]
              /\ DOMAIN agents_db' = DOMAIN agents_db
              /\ \A b \in DOMAIN agents_db :
                    IF b = a
                    THEN agents_db'[b] =
                            [agents_db[b] EXCEPT
                                !.current_tasks = agents_db[b].current_tasks + 1,
                                !.last_heartbeat = now]
                    ELSE agents_db'[b] = agents_db[b]
              /\ UNCHANGED <<task_results, redis_tasks, redis_queue, now>>]_vars

\* C19 witness: an agent whose last heartbeat was older was handed a
\* sub-task while another agent held one and a result was stored.
C19_Witness ==
    /\ last.op = "get_pending_task" /\ last.status = "task"
    /\ now > 0
    /\ agents_db[last.agent_id].last_heartbeat = now
    /\ \E b \in DOMAIN agents_db :
          /\ b # last.agent_id
          /\ agents_db[b].last_heartbeat < now
          /\ agents_db[b].current_tasks > 0
    /\ DOMAIN task_results # {}

\* C27: the Redis set active_agents, the stored status online and the
\* in-memory map active_agents hold the same agent ids.
C27_ActiveIndexAgrees ==
    \A a \in DOMAIN agent_store :
        /\ (a \in active_set) <=> (agent_store[a].status = "online")
        /\ (a \in active_set) <=> (a \in DOMAIN active_agents)

\* C28: every sub-task held in the hub's queue has status pending.
C28_QueueHoldsPendingOnly ==
    \A i \in QueueIndex : tasks_queue[i].status = "pending"

\* C30: a status query answered 200 for an id that is not itself a stored
\* key lists only sub-tasks whose parent_task_id is the queried id.
C30_StatusOfExactParent ==
    (/\ last.op = "get_task_status"
     /\ last.code = 200
     /\ last.task_id \notin DOMAIN redis_tasks)
        => \A k \in last.checks : redis_tasks[k].parent_task_id = last.task_id

\* C24: a sub-task is assigned only to an agent whose capability list holds
\* its check_type itself: an agent with the default capabilities holds none
\* of https, traceroute and dns_*, and a poll answered no_tasks leaves no
\* pending sub-task whose check_type is in the agent's list.
C24_ExactCapabilityMatch ==
    /\ \A i \in QueueIndex :
          tasks_queue[i].assigned_agent # None =>
            LET agent == agents_db[tasks_queue[i].assigned_agent] IN
            /\ tasks_queue[i].check_type \in agent.capabilities
            /\ agent.capabilities = default_capabilities =>
                  tasks_queue[i].check_type \notin
                      {"https", "traceroute", "dns_a", "dns_aaaa", "dns_mx",
                       "dns_ns", "dns_txt"}
    /\ (last.op = "get_pending_task" /\ last.status = "no_tasks") =>
          \A i \in QueueIndex :
             tasks_queue[i].status = "pending" =>
                tasks_queue[i].check_type
                    \notin agents_db[last.agent_id].capabilities

\* an agent with the default capabilities holds http, ping and tcp and is
\* answered no_tasks while dns_a is pending
C24_Witness ==
    /\ last.op = "get_pending_task" /\ last.status = "no_tasks"
    /\ agents_db[last.agent_id].capabilities = default_capabilities
    /\ agents_db[last.agent_id].current_tasks = 3
    /\ \E i \in QueueIndex : /\ tasks_queue[i].check_type = "dns_a"
                              /\ tasks_queue[i].status = "pending"

\* C29: when the hub has answered the coordinator's create-agent with
\* success, the coordinator answers success and its registry holds a record
\* under the hub-issued id with the placeholder credential.
C29_CreatedAgentRegistered ==
    (last.op = "admin_create_agent" /\ last.hub_code = 200)
        => /\ last.code = 200
           /\ last.agent_id \in DOMAIN redis_agents
           /\ redis_agents[last.agent_id].token = "hidden-token"

\* C26: delete-agent on an id in the registry removes that record and
\* answers success whatever the outcome of the stop call; on an id not in
\* the registry it answers 404, sends no stop call and changes nothing.
C26_DeleteWhateverStopDoes ==
    [][(last'.op = "delete_agent" /\ last' # last) =>
          IF last'.agent_id \in DOMAIN redis_agents
          THEN /\ last'.code = 200
               /\ redis_agents' = redis_delete(redis_agents, last'.agent_id)
          ELSE /\ last'.code = 404
               /\ ~last'.stop_sent
               /\ UNCHANGED <<coordVars, hubVars, now, mainVars>>]_vars

\* a record was deleted although the stop call failed or timed out
C26_Witness ==
    /\ last.op = "delete_agent" /\ last.code = 200
    /\ last.stop_sent /\ last.hub_call \in {"fail", "timeout"}
    /\ last.agent_id \notin DOMAIN redis_agents
    /\ last.agent_id \in DOMAIN agents_db
    /\ agents_db[last.agent_id].status = "online"

\* the agent exists and has this status
HasStatus(a, status) ==
    a \in DOMAIN agents_db /\ agents_db[a].status = status

\* the worker thread of the agent exists and is at one of these places
WorkerAt(a, pcs) == a \in DOMAIN workers /\ workers[a].pc \in pcs

CanRun(check_type) ==
    {a \in DOMAIN agents_db : /\ agents_db[a].status = "online"
                              /\ check_type \in agents_db[a].capabilities}

\* the sub-task with this id is in the hub's queue with this status
Queued(task_id, status) ==
    \E i \in QueueIndex : /\ tasks_queue[i].id = task_id
                          /\ tasks_queue[i].status = status

\* C25: a relayed sub-task that an online agent can run is eventually
\* completed unless no such agent stays online, and the load of an agent
\* whose thread runs its cycle eventually returns to 0.
C25_RelayedTaskCompleted ==
    /\ \A t \in RelayedTasks :
          (Queued(t.id, "pending") /\ CanRun(t.check_type) # {})
              ~> (Queued(t.id, "completed") \/ CanRun(t.check_type) = {})
    /\ \A a \in WorkerAgents :
          (a \in DOMAIN agents_db /\ agents_db[a].current_tasks > 0)
              ~> (a \in DOMAIN agents_db /\ agents_db[a].current_tasks = 0)

\* an online agent's thread has submitted its sub-task: the sub-task is
\* completed and the agent's load is back from 1 to 0
C25_Witness ==
    /\ last.op = "submit_result" /\ last.code = 200
    /\ last.load_before = 1
    /\ HasStatus(last.agent_id, "online")
    /\ agents_db[last.agent_id].current_tasks = 0
    /\ Queued(last.task_id, "completed")
    /\ WorkerAt(last.agent_id, {"beat"})

\* the agent is in the in-memory map and its last heartbeat is older than
\* the timeout
Stale(a) == a \in DOMAIN active_agents /\ is_dead(active_agents[a])

SubmitStep ==
    /\ last'.op = "submit_result"
    /\ last'.code = 200
    /\ nSubmits' = nSubmits + 1

\* C31: a submit-result accepted for a sub-task that is not assigned to the
\* submitting agent leaves the status of every sub-task and the load of
\* every agent as they were.
C31_ForeignSubmitChangesNothing ==
    [][(/\ SubmitStep
        /\ ~\E i \in QueueIndex :
               /\ tasks_queue[i].id = last'.task_id
               /\ tasks_queue[i].status = "assigned"
               /\ tasks_queue[i].assigned_agent = last'.agent_id)
          => /\ \A i \in QueueIndex :
                  tasks_queue'[i].status = tasks_queue[i].status
             /\ \A a \in DOMAIN agents_db :
                  agents_db'[a].current_tasks = agents_db[a].current_tasks]_vars

\* C32: an agent whose status is stopped has status stopped after every
\* step.
C32_StoppedStaysStopped ==
    [][\A a \in DOMAIN agents_db :
          agents_db[a].status = "stopped"
              => agents_db'[a].status = "stopped"]_vars

Running(w) == agent_workers[w].pc \in {"heartbeat", "pop"}

\* a step in which the worker w sends its periodic heartbeat
HeartbeatStep(w) ==
    /\ agent_workers[w].pc = "heartbeat"
    /\ agent_workers[w].heartbeat_count % HeartbeatEvery = 0
    /\ agent_workers'[w].pc = "pop"

\* C34: every periodic heartbeat of a registered, running worker sets the
\* last_heartbeat of the agent record its registration created to the
\* present instant, and while the worker runs and its last heartbeat was
\* sent less than HEARTBEAT_TIMEOUT ago, that record is not offline.
C34_WorkerHeartbeatKeepsOnline ==
    /\ [][\A w \in WorkerNames :
             HeartbeatStep(w)
                 => /\ agent_workers[w].issued \in DOMAIN agent_store'
                    /\ agent_store'[agent_workers[w].issued].last_heartbeat
                           = now]_vars
    /\ [](\A w \in WorkerNames :
             (/\ Running(w)
              /\ \E t \in agent_workers[w].sent : now - t < HEARTBEAT_TIMEOUT)
                 => /\ agent_workers[w].issued \in DOMAIN agent_store
                    /\ agent_store[agent_workers[w].issued].status
                           # "offline")

\* C35: every process the regional hub started that is still running is
\* the process its agent id's row of the agents table names, so stop-agent
\* with that id reaches it.
C35_RunningProcessIsRecorded ==
    \A pid \in DOMAIN processes :
       processes[pid].state = "running"
           => /\ processes[pid].agent_id \in DOMAIN agents_table
              /\ agents_table[processes[pid].agent_id].process_id = pid
====
